---- MODULE Spec2Model ----
(***************************************************************************)
(* Model of the transactional statement executor (SqlClient) of the        *)
(* immudb client library: the begin/commit/rollback state machine, the     *)
(* threading of the transaction id through call metadata, and with_tx.     *)
(* Every RPC is an input: its outcome is drawn from the answers the server *)
(* or the channel can give.                                                *)
(***************************************************************************)
EXTENDS Integers, Sequences, FiniteSets, TLC

VARIABLES
    clients,    \* the SqlClient instances that exist
    tx_id,      \* tx_id[e]: Option<MetadataValue<Ascii>> held by instance e
    issued,     \* number of transaction ids the server has issued
    by,         \* the instance the most recent call was made on (0: none)
    sent,       \* the RPCs issued by the most recent call, in order
    call,       \* the most recent call: its name, its result, its inputs
    stream,     \* what the server streams back to a query: chunks, or an error
    payload,    \* the SqlExecResult the server answers an exec with
    result      \* the value exec or query handed back to its caller

qvars == <<stream, payload, result>>

VARIABLES
    arcs,       \* the Arc<SessionState> allocations, arcs[p] is the one p points to
    handles,    \* the handles of the connection: ImmuDB, SqlClient, DocClient
    tasks,      \* the keepalive tasks spawned, each with its position
    cancelled,  \* CancellationToken state (its clones share it)
    tokens,     \* number of bearer tokens the server has issued
    sop,        \* the most recent foreground operation, its RPCs, its result
    kop         \* the most recent keepalive RPC and how it ended

svars == <<arcs, handles, tasks, cancelled, tokens, sop, kop>>

mvars == <<clients, tx_id, issued, by, sent, call>>

(* SessionState.db_token at the grain of its lock: the words of the        *)
(* Option behind the RwLock, the lock, and the set_token and               *)
(* Interceptor::call invocations running against them                      *)
VARIABLES db_token, lock, setters, callers

tvars == <<db_token, lock, setters, callers>>

(* The codec and the result helpers: the value handed to a conversion and  *)
(* what the conversion made of it                                          *)
VARIABLES arg, conv

cvars == <<arg, conv>>

vars == <<mvars, qvars, svars, tvars, cvars>>

----------------------------------------------------------------------------
(* Bounds *)

MaxExec == 2        \* SqlClient instances
MaxTx == 2          \* transaction ids the server issues
MaxBody == 2        \* calls a with_tx body makes on the executor
MaxChunks == 3      \* messages in a query's response stream
MaxRows == 2        \* rows in one chunk
MaxHandles == 3     \* handles of one connection
MaxTokens == 2      \* bearer tokens the server issues
MaxSetters == 2     \* concurrent set_token invocations
MaxCallers == 2     \* concurrent Interceptor::call invocations
W8 == 2             \* bits of the model's u8 and i8
W16 == 4            \* bits of the model's u16 and i16
W32 == 6            \* bits of the model's u32 and i32
W64 == 8            \* bits of the model's u64 and i64
MaxDateNanos == 100000  \* the model's OffsetDateTime range, either side of the epoch
MaxNanos == 2500    \* instants handed to the codec, either side of the epoch
MaxBytes == 3       \* length of a byte string handed to the codec
MaxLabel == 3       \* length of the column labels drawn from the alphabet
MaxCols == 2        \* labels of a row, and columns of a result
MaxValues == 3      \* values of a row
MaxResultRows == 2  \* rows of a result handed to the read helpers
MaxBinds == 3       \* parameters bound in a row
MaxFields == 3      \* fields of a struct deriving ToParams
MaxEntries == 2     \* entries of the AND array of a document query

Executors == 1..MaxExec

----------------------------------------------------------------------------
(* Option<T>: None is the empty sequence, Some(v) the one-element one. *)

None == <<>>
Some(v) == <<v>>

(* Strings are byte sequences.  The server names its transactions           *)
(* "tx1", "tx2", ...; a server answering outside the protocol's guarantee   *)
(* sends a name holding a byte that is no visible ASCII character.          *)
ServerTxId(n) == <<116, 120, 48 + n>>
NonAsciiTxId == <<116, 120, 233>>

(* HeaderValue::from_str accepts visible ASCII (32..126) and tab only *)
is_visible_ascii(b) == (b >= 32 /\ b < 127) \/ b = 9

(* a conversion that wraps the bytes without validating them *)
MetadataValue_unchecked(s) == Some(s)

(* MetadataValue::<Ascii>::try_from(String): Some(value) or None on error *)
MetadataValue_try_from(s) ==
    IF \A i \in 1..Len(s) : is_visible_ascii(s[i]) THEN Some(s) ELSE None

----------------------------------------------------------------------------
(* RPCs as the server sees them: the method, the "transactionid" metadata   *)
(* entry (None when the request carries none) and the server's answer.      *)

Rpc(method, md, answer, id) ==
    [rpc |-> method, transactionid |-> md, ok |-> answer, id |-> id]

(* a request built by Request::new / into_request: no transactionid *)
PlainRequest == None

(* a req_with_tx that builds the request and forgets the insert *)
req_without_tx(tx) == None

(* SqlClient::req_with_tx: insert "transactionid" iff tx_id is Some *)
req_with_tx(tx) == IF tx # None THEN Some(tx[1]) ELSE None

(* The executor while one call runs: its tx_id, the RPCs sent so far, the   *)
(* number of ids the server has issued, and the call's result.              *)
Run(tx, rpcs, n, res) == [tx_id |-> tx, sent |-> rpcs, issued |-> n, res |-> res]

(* an exec that drops the RPC's Result as rollback does *)
exec_swallowing(c, answer) ==
    IF c.tx_id # None
    THEN Run(c.tx_id,
             Append(c.sent, Rpc("tx_sql_exec", req_with_tx(c.tx_id), answer, None)),
             c.issued, "Ok")
    ELSE Run(c.tx_id,
             Append(c.sent, Rpc("sql_exec", PlainRequest, answer, None)),
             c.issued, "Ok")

(* SqlClient::exec *)
exec(c, answer) ==
    IF c.tx_id # None
    THEN Run(c.tx_id,
             Append(c.sent, Rpc("tx_sql_exec", req_with_tx(c.tx_id), answer, None)),
             c.issued,
             IF answer THEN "Ok" ELSE "Protocol")
    ELSE Run(c.tx_id,
             Append(c.sent, Rpc("sql_exec", PlainRequest, answer, None)),
             c.issued,
             IF answer THEN "Ok" ELSE "Protocol")

(* a query that gives its transaction up when the call or the stream fails *)
query_abandoning(c, answer) ==
    LET req == req_with_tx(c.tx_id)
        method == IF c.tx_id # None THEN "tx_sql_query" ELSE "sql_query"
    IN  Run(IF answer = "ok" THEN c.tx_id ELSE None,
            Append(c.sent, Rpc(method, req, answer = "ok", None)),
            c.issued,
            IF answer = "ok" THEN "Ok" ELSE "Protocol")

(* SqlClient::query; answer is "ok", "err" (the call fails) or              *)
(* "stream_err" (the stream fails after it was opened)                      *)
query(c, answer) ==
    LET req == req_with_tx(c.tx_id)
        method == IF c.tx_id # None THEN "tx_sql_query" ELSE "sql_query"
    IN  Run(c.tx_id,
            Append(c.sent, Rpc(method, req, answer = "ok", None)),
            c.issued,
            IF answer = "ok" THEN "Ok" ELSE "Protocol")

(* SqlClient::begin; answer is "ok" (a fresh id), "nonascii" or "err" *)
begin(c, answer) ==
    LET transaction_id == IF answer = "ok" THEN ServerTxId(c.issued + 1)
                          ELSE IF answer = "nonascii" THEN NonAsciiTxId
                          ELSE None
        n == IF answer = "ok" THEN c.issued + 1 ELSE c.issued
        rpcs == Append(c.sent,
                       Rpc("new_tx", PlainRequest, answer # "err", transaction_id))
        tx_md == MetadataValue_try_from(transaction_id)
    IN  IF answer = "err" THEN Run(c.tx_id, rpcs, n, "Protocol")
        ELSE IF tx_md = None THEN Run(c.tx_id, rpcs, n, "Unexpected")
        ELSE Run(Some(tx_md[1]), rpcs, n, "Ok")

(* a commit that tries the RPC once more when it failed *)
commit_retrying(c, answer) ==
    IF c.tx_id = None THEN Run(c.tx_id, c.sent, c.issued, "Ok")
    ELSE LET rpcs == Append(c.sent, Rpc("commit", req_with_tx(c.tx_id), answer, None))
             twice == Append(rpcs, Rpc("commit", req_with_tx(c.tx_id), TRUE, None))
         IN  IF ~answer THEN Run(None, twice, c.issued, "Ok")
             ELSE Run(None, rpcs, c.issued, "Ok")

(* a commit without the early return for Autocommit *)
commit_unguarded(c, answer) ==
    LET rpcs == Append(c.sent, Rpc("commit", req_with_tx(c.tx_id), answer, None))
    IN  IF ~answer THEN Run(c.tx_id, rpcs, c.issued, "Protocol")
        ELSE Run(None, rpcs, c.issued, "Ok")

(* SqlClient::commit *)
commit(c, answer) ==
    IF c.tx_id = None THEN Run(c.tx_id, c.sent, c.issued, "Ok")
    ELSE LET rpcs == Append(c.sent, Rpc("commit", req_with_tx(c.tx_id), answer, None))
         IN  IF ~answer THEN Run(c.tx_id, rpcs, c.issued, "Protocol")
             ELSE Run(None, rpcs, c.issued, "Ok")

(* a rollback that propagates the RPC's failure with `?` as commit does *)
rollback_propagating(c, answer) ==
    IF c.tx_id = None THEN Run(c.tx_id, c.sent, c.issued, "Ok")
    ELSE LET rpcs == Append(c.sent, Rpc("rollback", req_with_tx(c.tx_id), answer, None))
         IN  IF ~answer THEN Run(c.tx_id, rpcs, c.issued, "Protocol")
             ELSE Run(None, rpcs, c.issued, "Ok")

(* SqlClient::rollback *)
rollback(c, answer) ==
    IF c.tx_id = None THEN Run(c.tx_id, c.sent, c.issued, "Ok")
    ELSE LET rpcs == Append(c.sent, Rpc("rollback", req_with_tx(c.tx_id), answer, None))
         IN  Run(None, rpcs, c.issued, "Ok")

(* One call the body of with_tx makes on the executor it was handed *)
BodyCall(c, s) ==
    CASE s.op = "exec" -> exec(c, s.answer = "ok")
      [] s.op = "query" -> query(c, s.answer)
      [] s.op = "begin" -> begin(c, s.answer)
      [] s.op = "commit" -> commit(c, s.answer = "ok")
      [] s.op = "rollback" -> rollback(c, s.answer = "ok")

(* f(self).await: the body's calls, in order *)
RECURSIVE RunBody(_, _)
RunBody(c, script) ==
    IF script = <<>> THEN c
    ELSE RunBody(BodyCall(c, Head(script)), Tail(script))

(* a with_tx that returns what rollback returned in place of the body's    *)
(* error                                                                    *)
with_tx_rollback_result(c, answer, script, bodyRes, fin) ==
    LET b == begin(c, answer)
    IN  IF b.res # "Ok" THEN b
        ELSE LET f == RunBody(b, script)
             IN  IF bodyRes = "Ok"
                 THEN LET k == commit(f, fin)
                      IN  IF k.res # "Ok" THEN k ELSE [k EXCEPT !.res = bodyRes]
                 ELSE rollback(f, fin)

(* a with_tx that runs its body whether begin succeeded or not *)
with_tx_body_always(c, answer, script, bodyRes, fin) ==
    LET b == begin(c, answer)
        f == RunBody(b, script)
    IN  IF b.res # "Ok" THEN [f EXCEPT !.res = b.res]
        ELSE IF bodyRes = "Ok"
             THEN LET k == commit(f, fin)
                  IN  IF k.res # "Ok" THEN k ELSE [k EXCEPT !.res = bodyRes]
             ELSE LET r == rollback(f, fin)
                  IN  [r EXCEPT !.res = bodyRes]

(* a with_tx that drops the commit's result and returns the body's value *)
with_tx_commit_ignored(c, answer, script, bodyRes, fin) ==
    LET b == begin(c, answer)
    IN  IF b.res # "Ok" THEN b
        ELSE LET f == RunBody(b, script)
             IN  IF bodyRes = "Ok"
                 THEN [commit(f, fin) EXCEPT !.res = bodyRes]
                 ELSE [rollback(f, fin) EXCEPT !.res = bodyRes]

(* SqlClient::with_tx; answer is new_tx's, script and bodyRes are the body  *)
(* f and the Result it returns, fin is the answer to commit or rollback     *)
with_tx(c, answer, script, bodyRes, fin) ==
    LET b == begin(c, answer)
    IN  IF b.res # "Ok" THEN b
        ELSE LET f == RunBody(b, script)
             IN  IF bodyRes = "Ok"
                 THEN LET k == commit(f, fin)
                      IN  IF k.res # "Ok" THEN k ELSE [k EXCEPT !.res = bodyRes]
                 ELSE LET r == rollback(f, fin)
                      IN  [r EXCEPT !.res = bodyRes]

----------------------------------------------------------------------------
(* Results of exec and query *)

Ok(v) == [res |-> "Ok", value |-> Some(v)]
Err(e) == [res |-> e, value |-> None]
NoResult == [res |-> "none", value |-> None]

Column(name, type) == [name |-> name, type |-> type]
Row(columns, values) == [columns |-> columns, values |-> values]
QueryResult(columns, rows) == [columns |-> columns, rows |-> rows]

(* SqlExecResult and SqlExecResult::default() *)
SqlExecResult(txs, ongoing_tx) == [txs |-> txs, ongoing_tx |-> ongoing_tx]
SqlExecResult_default == SqlExecResult(0, FALSE)

(* an exec that hands back the server's payload in a transaction too *)
exec_resp_always(c, answer, p) ==
    IF answer THEN Ok(p) ELSE Err("Protocol")

(* SqlClient::exec, the value it returns: `resp` *)
exec_resp(c, answer, p) ==
    IF c.tx_id # None
    THEN IF answer THEN Ok(SqlExecResult_default) ELSE Err("Protocol")
    ELSE IF answer THEN Ok(p) ELSE Err("Protocol")

(* a loop that lets every chunk carrying metadata replace the columns *)
RECURSIVE drain_last_columns(_, _, _)
drain_last_columns(items, columns_meta, rows) ==
    IF items = <<>> THEN Ok(QueryResult(columns_meta, rows))
    ELSE LET chunk == Head(items)
         IN  IF chunk.err THEN Err("Protocol")
             ELSE drain_last_columns(
                    Tail(items),
                    IF chunk.columns # <<>> THEN chunk.columns ELSE columns_meta,
                    rows \o chunk.rows)

(* a loop that takes a stream error for the end of the stream *)
RECURSIVE drain_until_error(_, _, _)
drain_until_error(items, columns_meta, rows) ==
    IF items = <<>> \/ Head(items).err THEN Ok(QueryResult(columns_meta, rows))
    ELSE LET chunk == Head(items)
         IN  drain_until_error(
                    Tail(items),
                    IF columns_meta = <<>> /\ chunk.columns # <<>>
                    THEN chunk.columns ELSE columns_meta,
                    rows \o chunk.rows)

(* SqlClient::query, `while let Some(chunk) = stream.message().await?`:     *)
(* items are the messages still to come, an item with err set is a Status   *)
RECURSIVE drain(_, _, _)
drain(items, columns_meta, rows) ==
    IF items = <<>> THEN Ok(QueryResult(columns_meta, rows))
    ELSE LET chunk == Head(items)
         IN  IF chunk.err THEN Err("Protocol")
             ELSE drain(Tail(items),
                        IF columns_meta = <<>> /\ chunk.columns # <<>>
                        THEN chunk.columns ELSE columns_meta,
                        rows \o chunk.rows)

(* SqlClient::query, the value it returns; opened is whether the RPC that   *)
(* opens the stream succeeded                                               *)
query_resp(opened, items) ==
    IF ~opened THEN Err("Protocol") ELSE drain(items, <<>>, <<>>)

----------------------------------------------------------------------------
(* The session: SessionState behind an Arc, the interceptor, the handles *)

SessionId == <<115, 49>>
ServerUuid == <<117, 49>>
NonAsciiName == <<115, 233>>
ServerToken(n) == <<116, 111, 107, 48 + n>>
NonAsciiToken == <<116, 111, 107, 233>>

(* request metadata: the three keys the interceptor sets, None when absent *)
Metadata(sid, uuid, auth) ==
    [sessionid |-> sid, immudb_uuid |-> uuid, authorization |-> auth]

(* a request on the bare channel *)
NoMetadata == Metadata(None, None, None)

SessionState(sid, uuid, tok) ==
    [session_id |-> sid, server_uuid |-> uuid, db_token |-> tok]

(* SessionInterceptor::new; None where `expect` panics *)
SessionInterceptor_new(session_id, server_uuid) ==
    LET sid == MetadataValue_try_from(session_id)
        su == MetadataValue_try_from(server_uuid)
    IN  IF sid = None \/ su = None THEN None
        ELSE Some(SessionState(sid[1], su[1], None))

(* a clone that copies the state behind the Arc into a new allocation *)
SessionInterceptor_deep_clone(mem, p) ==
    [arcs |-> Append(mem, mem[p]), ptr |-> Len(mem) + 1]

(* #[derive(Clone)] on SessionInterceptor: Arc::clone, the same allocation *)
SessionInterceptor_clone(mem, p) == [arcs |-> mem, ptr |-> p]

(* a set_token that forgets the stored token when the new one is refused *)
set_token_clearing(st, token) ==
    LET mv == MetadataValue_try_from(token)
    IN  IF mv = None THEN [st |-> [st EXCEPT !.db_token = None], res |-> "InvalidInput"]
        ELSE [st |-> [st EXCEPT !.db_token = Some(mv[1])], res |-> "Ok"]

(* a set_token that stores the token without converting it *)
set_token_unchecked(st, token) ==
    [st |-> [st EXCEPT !.db_token = Some(token)], res |-> "Ok"]

(* SessionInterceptor::set_token *)
set_token(st, token) ==
    LET mv == MetadataValue_try_from(token)
    IN  IF mv = None THEN [st |-> st, res |-> "InvalidInput"]
        ELSE [st |-> [st EXCEPT !.db_token = Some(mv[1])], res |-> "Ok"]

(* an interceptor that leaves the authorization entry out *)
SessionInterceptor_call_no_auth(st) ==
    Metadata(Some(st.session_id), Some(st.server_uuid), None)

(* Interceptor::call for SessionInterceptor *)
SessionInterceptor_call(st) ==
    Metadata(Some(st.session_id), Some(st.server_uuid),
             IF st.db_token # None THEN Some(st.db_token[1]) ELSE None)

(* an RPC of the session layer: method, metadata, whether it succeeded *)
SRpc(method, md, answer) == [rpc |-> method, md |-> md, ok |-> answer]

(* handles *)
NoHandle == [kind |-> "none", service |-> 0, interceptor |-> 0]
ImmuDB(service, interceptor) ==
    [kind |-> "db", service |-> service, interceptor |-> interceptor]
Dropped == [kind |-> "dropped", service |-> 0, interceptor |-> 0]
SubClient(kind, service) == [kind |-> kind, service |-> service, interceptor |-> 0]

(* a keepalive task: where it is, and the service it calls through *)
Task(pc, service) == [pc |-> pc, service |-> service]

(* spawn_keepalive *)
spawn_keepalive(ts, service) == Append(ts, Task("select", service))

(* a keepalive loop that ends when the RPC fails *)
keep_alive_done_strict(t, answer) ==
    IF answer THEN Task("select", t.service) ELSE Task("done", t.service)

(* the tick arm after `cli.keep_alive(()).await` returned: `let _ =` drops  *)
(* the result and the loop selects again                                    *)
keep_alive_done(t, answer) == Task("select", t.service)

(* The connection while one operation runs, and what the operation gives:  *)
(* the connection after it, its result, the RPCs it sent, the handle made  *)
World(mem, ts, c, n) == [arcs |-> mem, tasks |-> ts, cancelled |-> c, tokens |-> n]
Out(w, res, rpcs, h) == [w |-> w, res |-> res, rpcs |-> rpcs, handle |-> h]

(* a connect that spawns the keepalive task as soon as the intercepted     *)
(* service exists, before the database is selected                         *)
connect_spawning_early(w, oa, ua) ==
    LET open == SRpc("open_session", NoMetadata, oa # "err")
        session_id == IF oa = "nonascii" THEN NonAsciiName ELSE SessionId
        made == SessionInterceptor_new(session_id, ServerUuid)
    IN  IF oa = "err" THEN Out(w, "Protocol", <<open>>, NoHandle)
        ELSE IF made = None THEN Out(w, "panic", <<open>>, NoHandle)
        ELSE
          LET interceptor == Len(w.arcs) + 1
              c1 == SessionInterceptor_clone(Append(w.arcs, made[1]), interceptor)
              service == c1.ptr
              spawned == spawn_keepalive(w.tasks, service)
              usedb == SRpc("use_database",
                            SessionInterceptor_call(c1.arcs[service]), ua # "err")
              token == IF ua = "nonascii" THEN NonAsciiToken
                       ELSE ServerToken(w.tokens + 1)
              stored == set_token(c1.arcs[interceptor], token)
          IN  IF ua = "err"
              THEN Out(World(c1.arcs, spawned, FALSE, w.tokens),
                       "Protocol", <<open, usedb>>, NoHandle)
              ELSE IF stored.res # "Ok"
              THEN Out(World(c1.arcs, spawned, FALSE, w.tokens),
                       stored.res, <<open, usedb>>, NoHandle)
              ELSE Out(World([c1.arcs EXCEPT ![interceptor] = stored.st], spawned,
                             FALSE, w.tokens + 1),
                       "Ok", <<open, usedb>>, ImmuDB(service, interceptor))

(* ConnectOptionsBuilder::connect, from the open-session call on; oa and   *)
(* ua are the answers to open_session and use_database                     *)
connect(w, oa, ua) ==
    LET open == SRpc("open_session", NoMetadata, oa # "err")
        session_id == IF oa = "nonascii" THEN NonAsciiName ELSE SessionId
        made == SessionInterceptor_new(session_id, ServerUuid)
    IN  IF oa = "err" THEN Out(w, "Protocol", <<open>>, NoHandle)
        ELSE IF made = None THEN Out(w, "panic", <<open>>, NoHandle)
        ELSE
          LET interceptor == Len(w.arcs) + 1
              c1 == SessionInterceptor_clone(Append(w.arcs, made[1]), interceptor)
              service == c1.ptr
              c2 == SessionInterceptor_clone(c1.arcs, service)
              usedb == SRpc("use_database",
                            SessionInterceptor_call(c2.arcs[c2.ptr]), ua # "err")
              token == IF ua = "nonascii" THEN NonAsciiToken
                       ELSE ServerToken(w.tokens + 1)
              stored == set_token(c2.arcs[interceptor], token)
          IN  IF ua = "err" THEN Out(w, "Protocol", <<open, usedb>>, NoHandle)
              ELSE IF stored.res # "Ok"
              THEN Out(w, stored.res, <<open, usedb>>, NoHandle)
              ELSE LET c3 == SessionInterceptor_clone(
                                [c2.arcs EXCEPT ![interceptor] = stored.st], service)
                   IN  Out(World(c3.arcs, spawn_keepalive(w.tasks, c3.ptr),
                                 FALSE, w.tokens + 1),
                           "Ok", <<open, usedb>>, ImmuDB(service, interceptor))

(* a use_database that starts a keepalive for the database it selected *)
use_database_respawning(w, h, ua) ==
    LET c == SessionInterceptor_clone(w.arcs, h.service)
        usedb == SRpc("use_database", SessionInterceptor_call(c.arcs[c.ptr]), ua # "err")
        token == IF ua = "nonascii" THEN NonAsciiToken ELSE ServerToken(w.tokens + 1)
        stored == set_token(c.arcs[h.interceptor], token)
    IN  IF ua = "err" THEN Out(w, "Protocol", <<usedb>>, NoHandle)
        ELSE IF stored.res # "Ok"
        THEN Out([w EXCEPT !.arcs = [c.arcs EXCEPT ![h.interceptor] = stored.st]],
                 stored.res, <<usedb>>, NoHandle)
        ELSE Out(World([c.arcs EXCEPT ![h.interceptor] = stored.st],
                       spawn_keepalive(w.tasks, h.service), w.cancelled, w.tokens + 1),
                 "Ok", <<usedb>>, NoHandle)

(* ImmuDB::use_database *)
use_database(w, h, ua) ==
    LET c == SessionInterceptor_clone(w.arcs, h.service)
        usedb == SRpc("use_database", SessionInterceptor_call(c.arcs[c.ptr]), ua # "err")
        token == IF ua = "nonascii" THEN NonAsciiToken ELSE ServerToken(w.tokens + 1)
        stored == set_token(c.arcs[h.interceptor], token)
    IN  IF ua = "err" THEN Out(w, "Protocol", <<usedb>>, NoHandle)
        ELSE IF stored.res # "Ok"
        THEN Out([w EXCEPT !.arcs = [c.arcs EXCEPT ![h.interceptor] = stored.st]],
                 stored.res, <<usedb>>, NoHandle)
        ELSE Out(World([c.arcs EXCEPT ![h.interceptor] = stored.st],
                       w.tasks, w.cancelled, w.tokens + 1),
                 "Ok", <<usedb>>, NoHandle)

(* ImmuDB::sql and ImmuDB::doc: a client over raw_main() or raw_doc() *)
derive_client(w, h, kind) ==
    LET c == SessionInterceptor_clone(w.arcs, h.service)
    IN  Out([w EXCEPT !.arcs = c.arcs], "Ok", <<>>, SubClient(kind, c.ptr))

(* #[derive(Clone)] on ImmuDB: service, interceptor and token are cloned *)
ImmuDB_clone(w, h) ==
    LET c1 == SessionInterceptor_clone(w.arcs, h.service)
        c2 == SessionInterceptor_clone(c1.arcs, h.interceptor)
    IN  Out([w EXCEPT !.arcs = c2.arcs], "Ok", <<>>, ImmuDB(c1.ptr, c2.ptr))

(* a Drop that goes on to close the session and waits for the answer *)
ImmuDB_drop_closing(w, h) ==
    LET c == SessionInterceptor_clone(w.arcs, h.service)
    IN  Out([w EXCEPT !.cancelled = TRUE], "Ok",
            <<SRpc("close_session", SessionInterceptor_call(c.arcs[c.ptr]), TRUE)>>,
            Dropped)

(* impl Drop for ImmuDB: cancel, then `return;` *)
ImmuDB_drop(w, h) ==
    Out([w EXCEPT !.cancelled = TRUE], "Ok", <<>>, Dropped)

(* one RPC made through a handle: list_databases on ImmuDB (over            *)
(* raw_main()), a statement on SqlClient, a request on DocClient            *)
request(w, h, answer) ==
    LET c == IF h.kind = "db" THEN SessionInterceptor_clone(w.arcs, h.service)
             ELSE [arcs |-> w.arcs, ptr |-> h.service]
        method == CASE h.kind = "db" -> "database_list_v2"
                    [] h.kind = "sql" -> "sql_exec"
                    [] h.kind = "doc" -> "get_collections"
    IN  Out([w EXCEPT !.arcs = c.arcs],
            IF answer THEN "Ok" ELSE "Protocol",
            <<SRpc(method, SessionInterceptor_call(c.arcs[c.ptr]), answer)>>,
            NoHandle)

----------------------------------------------------------------------------
(* The typed value codec.  An application value is [type, v]; integers are *)
(* kept at the width of their type, strings and byte strings are sequences *)
(* of bytes, a Uuid is its 16 bytes.                                       *)

Pow2(n) == 2 ^ n

Bits(type) ==
    CASE type \in {"i8", "u8"} -> W8
      [] type \in {"i16", "u16"} -> W16
      [] type \in {"i32", "u32"} -> W32
      [] type \in {"i64", "u64"} -> W64

IsSigned(type) == type \in {"i8", "i16", "i32", "i64"}

MinOf(type) == IF IsSigned(type) THEN -Pow2(Bits(type) - 1) ELSE 0
MaxOf(type) == IF IsSigned(type) THEN Pow2(Bits(type) - 1) - 1 ELSE Pow2(Bits(type)) - 1

(* `n as i64`: the low 64 bits of n, read as two's complement *)
as_i64(n) ==
    LET m == n % Pow2(W64)
    IN  IF m >= Pow2(W64 - 1) THEN m - Pow2(W64) ELSE m

SqlArg(tag, v) == [tag |-> tag, v |-> v]

(* an f64: finite values count halves, NaN and the infinities are classes *)
F64(class, halves) == [class |-> class, halves |-> halves]

(* the f64 has 53 bits of mantissa against the 64 of an i64 *)
F64Mantissa == W64 - 2

RECURSIVE BitLen(_)
BitLen(a) == IF a = 0 THEN 0 ELSE 1 + BitLen(a \div 2)

(* `n as f64`: the nearest f64, ties to even *)
as_f64(n) ==
    LET a == IF n < 0 THEN -n ELSE n
        unit == IF BitLen(a) > F64Mantissa THEN Pow2(BitLen(a) - F64Mantissa) ELSE 1
        q == a \div unit
        r == a % unit
        up == 2 * r > unit \/ (2 * r = unit /\ q % 2 = 1)
        m == (IF up THEN q + 1 ELSE q) * unit
    IN  F64("finite", 2 * (IF n < 0 THEN -m ELSE m))

(* an OffsetDateTime: the instant in nanoseconds since the epoch, and the  *)
(* offset, in hours, it is given with                                      *)
OffsetDateTime(ns, offset) == [ns |-> ns, offset |-> offset]
UTC == 0

(* OffsetDateTime::to_offset: the same instant at another offset *)
to_offset(dt, offset) == OffsetDateTime(dt.ns, offset)

unix_timestamp_nanos(dt) == dt.ns

(* `/` on integers: the quotient, rounded toward zero *)
div(a, b) == IF a >= 0 THEN a \div b ELSE -((-a) \div b)

(* impl From<OffsetDateTime> for SqlArg *)
SqlArg_from_OffsetDateTime(dt) ==
    LET dt_utc == to_offset(dt, UTC)
        micros == div(unix_timestamp_nanos(dt_utc), 1000)
    IN  SqlArg("Ts", as_i64(micros))

(* impl From<T> for SqlArg, by the type of x *)
SqlArg_from(x) ==
    CASE x.type = "OffsetDateTime" -> SqlArg_from_OffsetDateTime(x.v)
      [] x.type \in {"i64", "i32", "i16", "i8"} -> SqlArg("I64", as_i64(x.v))
      [] x.type \in {"u8", "u16", "u32", "u64"} -> SqlArg("I64", as_i64(x.v))
      [] x.type = "bool" -> SqlArg("Bool", x.v)
      [] x.type = "f64" -> SqlArg("F64", x.v)
      [] x.type \in {"String", "&str"} -> SqlArg("Str", x.v)
      [] x.type \in {"Vec<u8>", "&[u8]"} -> SqlArg("Bytes", x.v)
      [] x.type = "Uuid" -> SqlArg("Bytes", x.v)

(* sql_value::Value and SqlValue { value: Option<Value> } *)
Value(variant, v) == [variant |-> variant, v |-> v]
SqlValue(value) == [value |-> value]

(* an arg_to_sql_value that sends byte strings in the string variant *)
arg_to_sql_value_bytes_as_text(a) ==
    SqlValue(Some(
        CASE a.tag = "Null" -> Value("Null", 0)
          [] a.tag = "I64" -> Value("N", a.v)
          [] a.tag = "F64" -> Value("F", a.v)
          [] a.tag = "Bool" -> Value("B", a.v)
          [] a.tag = "Str" -> Value("S", a.v)
          [] a.tag = "Bytes" -> Value("S", a.v)
          [] a.tag = "Ts" -> Value("Ts", a.v)))

(* arg_to_sql_value *)
arg_to_sql_value(a) ==
    SqlValue(Some(
        CASE a.tag = "Null" -> Value("Null", 0)
          [] a.tag = "I64" -> Value("N", a.v)
          [] a.tag = "F64" -> Value("F", a.v)
          [] a.tag = "Bool" -> Value("B", a.v)
          [] a.tag = "Str" -> Value("S", a.v)
          [] a.tag = "Bytes" -> Value("Bs", a.v)
          [] a.tag = "Ts" -> Value("Ts", a.v)))

(* BASE64_STANDARD.encode: the alphabet and the padding *)
Base64Char(i) ==
    IF i < 26 THEN 65 + i
    ELSE IF i < 52 THEN 97 + (i - 26)
    ELSE IF i < 62 THEN 48 + (i - 52)
    ELSE IF i = 62 THEN 43 ELSE 47

Base64Pad == 61

RECURSIVE BASE64_STANDARD_encode(_)
BASE64_STANDARD_encode(b) ==
    IF Len(b) = 0 THEN <<>>
    ELSE IF Len(b) = 1 THEN
        <<Base64Char(b[1] \div 4), Base64Char((b[1] % 4) * 16), Base64Pad, Base64Pad>>
    ELSE IF Len(b) = 2 THEN
        <<Base64Char(b[1] \div 4), Base64Char((b[1] % 4) * 16 + b[2] \div 16),
          Base64Char((b[2] % 16) * 4), Base64Pad>>
    ELSE
        <<Base64Char(b[1] \div 4), Base64Char((b[1] % 4) * 16 + b[2] \div 16),
          Base64Char((b[2] % 16) * 4 + b[3] \div 64), Base64Char(b[3] % 64)>>
            \o BASE64_STANDARD_encode(SubSeq(b, 4, Len(b)))

(* Error::Decode(format!("expected {}, got {:?}", expected, other)), and   *)
(* Error::Decode(e.to_string()) for the error e of a library               *)
Decode(msg) == [res |-> "Decode", value |-> None, msg |-> msg]
Mismatch(expected, other) == Decode(<<"expected", expected, "got", other>>)

(* OffsetDateTime::from_unix_timestamp_nanos: None outside the range *)
from_unix_timestamp_nanos(ns) ==
    IF ns < -MaxDateNanos \/ ns > MaxDateNanos THEN None
    ELSE Some(OffsetDateTime(ns, UTC))

(* Uuid::from_slice: the slice must be 16 bytes long *)
Uuid_from_slice(bs) == IF Len(bs) = 16 THEN Some(bs) ELSE None

HexDigit(c) ==
    IF c \in 48..57 THEN c - 48
    ELSE IF c \in 97..102 THEN c - 87
    ELSE IF c \in 65..70 THEN c - 55
    ELSE -1

(* Uuid::parse_str on the simple form (32 hexadecimal digits) and on the   *)
(* hyphenated form (8-4-4-4-12)                                            *)
Uuid_parse_str(str) ==
    LET hyphens == {9, 14, 19, 24}
        digits == IF Len(str) = 36 /\ \A i \in hyphens : str[i] = 45
                  THEN SelectSeq([i \in 1..36 |-> IF i \in hyphens THEN -2 ELSE HexDigit(str[i])],
                                 LAMBDA d : d # -2)
                  ELSE [i \in 1..Len(str) |-> HexDigit(str[i])]
    IN  IF Len(digits) = 32 /\ \A i \in 1..32 : digits[i] >= 0
        THEN Some([i \in 1..16 |-> 16 * digits[2 * i - 1] + digits[2 * i]])
        ELSE None

(* the variant of a wire value and what it holds; "None" when absent *)
Held(v) == IF v.value = None THEN Value("None", 0) ELSE v.value[1]

(* impl_tryfrom_sqlvalue!(i64, "i64", N(n) => n) *)
try_from_i64(v) ==
    IF Held(v).variant = "N" THEN Ok(Held(v).v)
    ELSE Mismatch("i64", v.value)

(* a String decode that takes the bytes of a byte string for its text *)
try_from_String_raw(v) ==
    IF Held(v).variant = "S" THEN Ok(Held(v).v)
    ELSE IF Held(v).variant = "Bs" THEN Ok(Held(v).v)
    ELSE Mismatch("string or bytes(base64)", v.value)

(* a String decode that reads Null as the empty string *)
try_from_String_null_as_empty(v) ==
    IF Held(v).variant = "S" THEN Ok(Held(v).v)
    ELSE IF Held(v).variant = "Bs" THEN Ok(BASE64_STANDARD_encode(Held(v).v))
    ELSE IF Held(v).variant = "Null" THEN Ok(<<>>)
    ELSE Mismatch("string or bytes(base64)", v.value)

(* impl_tryfrom_sqlvalue!(String, "string or bytes(base64)", S(s) => s,    *)
(* Bs(b) => BASE64_STANDARD.encode(b))                                     *)
try_from_String(v) ==
    IF Held(v).variant = "S" THEN Ok(Held(v).v)
    ELSE IF Held(v).variant = "Bs" THEN Ok(BASE64_STANDARD_encode(Held(v).v))
    ELSE Mismatch("string or bytes(base64)", v.value)

(* impl_tryfrom_sqlvalue!(bool, "bool", B(b) => b) *)
try_from_bool(v) ==
    IF Held(v).variant = "B" THEN Ok(Held(v).v)
    ELSE Mismatch("bool", v.value)

(* impl_tryfrom_sqlvalue!(f64, "f64", F(f) => f, N(n) => n as f64) *)
try_from_f64(v) ==
    IF Held(v).variant = "F" THEN Ok(Held(v).v)
    ELSE IF Held(v).variant = "N" THEN Ok(as_f64(Held(v).v))
    ELSE Mismatch("f64", v.value)

(* impl_tryfrom_sqlvalue!(Vec<u8>, "bytes", Bs(bs) => bs) *)
try_from_Vec_u8(v) ==
    IF Held(v).variant = "Bs" THEN Ok(Held(v).v)
    ELSE Mismatch("bytes", v.value)

(* impl_tryfrom_sqlvalue!(OffsetDateTime, "timestamp (Ts)", Ts(us) => ..) *)
try_from_OffsetDateTime(v) ==
    IF Held(v).variant = "Ts"
    THEN LET ns == Held(v).v * 1000
             dt == from_unix_timestamp_nanos(ns)
         IN  IF dt = None THEN Decode(<<"ComponentRange">>) ELSE Ok(dt[1])
    ELSE Mismatch("timestamp (Ts)", v.value)

(* impl_tryfrom_sqlvalue!(uuid::Uuid, "uuid (16 bytes or string)", ..) *)
try_from_Uuid(v) ==
    IF Held(v).variant = "Bs"
    THEN LET u == Uuid_from_slice(Held(v).v)
         IN  IF u = None THEN Decode(<<"uuid::Error">>) ELSE Ok(u[1])
    ELSE IF Held(v).variant = "S"
    THEN LET u == Uuid_parse_str(Held(v).v)
         IN  IF u = None THEN Decode(<<"uuid::Error">>) ELSE Ok(u[1])
    ELSE Mismatch("uuid (16 bytes or string)", v.value)

(* T::try_from(v), by the target type *)
try_from(type, v) ==
    CASE type = "i64" -> try_from_i64(v)
      [] type = "String" -> try_from_String(v)
      [] type = "bool" -> try_from_bool(v)
      [] type = "f64" -> try_from_f64(v)
      [] type = "Vec<u8>" -> try_from_Vec_u8(v)
      [] type = "OffsetDateTime" -> try_from_OffsetDateTime(v)
      [] type = "Uuid" -> try_from_Uuid(v)

----------------------------------------------------------------------------
(* Column labels.  A str is the sequence of its bytes.                     *)

(* char::is_whitespace, on ASCII *)
is_whitespace(c) == c \in {9, 10, 11, 12, 13, 32}

RECURSIVE trim_start_matches(_, _)
trim_start_matches(str, pat) ==
    IF str # <<>> /\ pat[Head(str)] THEN trim_start_matches(Tail(str), pat) ELSE str

RECURSIVE trim_end_matches(_, _)
trim_end_matches(str, pat) ==
    IF str # <<>> /\ pat[str[Len(str)]]
    THEN trim_end_matches(SubSeq(str, 1, Len(str) - 1), pat)
    ELSE str

(* str::trim_matches: the matching characters of both ends are removed *)
trim_matches(str, pat) == trim_end_matches(trim_start_matches(str, pat), pat)

Chars == 0..255

(* str::trim *)
trim(str) == trim_matches(str, [c \in Chars |-> is_whitespace(c)])

(* str.rsplit(sep).next(): what follows the last sep, all of str without *)
RECURSIVE rsplit_next(_, _)
rsplit_next(str, sep) ==
    IF str = <<>> \/ str[Len(str)] = sep THEN <<>>
    ELSE Append(rsplit_next(SubSeq(str, 1, Len(str) - 1), sep), str[Len(str)])

(* normalize_col, the loop: while the first byte is '(' and the last is    *)
(* ')', both go and what is between is trimmed                             *)
RECURSIVE trim_outer_parentheses(_)
trim_outer_parentheses(str) ==
    IF Len(str) >= 2 /\ str[1] = 40 /\ str[Len(str)] = 41
    THEN trim_outer_parentheses(trim(SubSeq(str, 2, Len(str) - 1)))
    ELSE str

(* QueryResult::normalize_col *)
normalize_col(label) ==
    LET s1 == trim_outer_parentheses(trim(label))
        s2 == trim_matches(s1, [c \in Chars |-> c \in {34, 96, 91, 93}])
        seg == trim(rsplit_next(s2, 46))
    IN  trim(trim_matches(seg, [c \in Chars |-> c \in {41, 40}]))

(* serde_json::Value, and the Map of a JSON object: a function from its    *)
(* keys; an insert under a key the map holds replaces the value            *)
Json(type, v) == [json |-> type, v |-> v]
JsonNull == Json("null", 0)
EmptyMap == [k \in {} |-> JsonNull]
Map_insert(obj, key, value) ==
    [k \in DOMAIN obj \cup {key} |-> IF k = key THEN value ELSE obj[k]]

(* sql_value_to_json *)
sql_value_to_json(v) ==
    CASE Held(v).variant \in {"Null", "None"} -> JsonNull
      [] Held(v).variant = "N" -> Json("number", Held(v).v)
      [] Held(v).variant = "F" -> Json("float", Held(v).v)
      [] Held(v).variant = "B" -> Json("bool", Held(v).v)
      [] Held(v).variant = "S" -> Json("string", Held(v).v)
      [] Held(v).variant = "Bs" -> Json("string", BASE64_STANDARD_encode(Held(v).v))
      [] Held(v).variant = "Ts" -> Json("number", Held(v).v)

(* the decimal digits of n, as format!("{}", n) prints them *)
RECURSIVE Digits(_)
Digits(n) == IF n < 10 THEN <<48 + n>> ELSE Append(Digits(n \div 10), 48 + (n % 10))

(* format!("col{}", i + 1) for the 0-based position i *)
col_format(i) == <<99, 111, 108>> \o Digits(i + 1)

(* Vec::get on a 0-based index: None past the end *)
get(vec, i) == IF i < Len(vec) THEN Some(vec[i + 1]) ELSE None

(* row_as_json, `for i in 0..total`: the entries of positions i and up *)
RECURSIVE row_entries(_, _, _, _, _)
row_entries(obj, names, synth, values, i) ==
    IF i >= Len(values) THEN obj
    ELSE LET raw == IF synth THEN col_format(i)
                    ELSE IF get(names, i) # None THEN get(names, i)[1] ELSE col_format(i)
             key == normalize_col(raw)
             v == IF get(values, i) # None THEN get(values, i)[1]
                  ELSE SqlValue(Some(Value("Null", 0)))
         IN  row_entries(Map_insert(obj, key, sql_value_to_json(v)),
                         names, synth, values, i + 1)

(* a row_as_json that prefers the result's column names to the row's *)
row_as_json_result_first(self, idx) ==
    IF get(self.rows, idx) = None THEN Decode(<<"row out of bounds">>)
    ELSE LET row == get(self.rows, idx)[1]
             names == IF self.columns # <<>>
                      THEN [k \in 1..Len(self.columns) |-> self.columns[k].name]
                      ELSE row.columns
         IN  Ok(row_entries(EmptyMap, names, names = <<>>, row.values, 0))

(* QueryResult::row_as_json *)
row_as_json(self, idx) ==
    IF get(self.rows, idx) = None THEN Decode(<<"row out of bounds">>)
    ELSE LET row == get(self.rows, idx)[1]
             names == IF row.columns # <<>> THEN row.columns
                      ELSE [k \in 1..Len(self.columns) |-> self.columns[k].name]
         IN  Ok(row_entries(EmptyMap, names, names = <<>>, row.values, 0))

(* QueryResult::scalar *)
scalar(self, T) ==
    IF self.rows = <<>> THEN Decode(<<"empty result">>)
    ELSE IF self.rows[1].values = <<>> THEN Decode(<<"no columns">>)
    ELSE try_from(T, self.rows[1].values[1])

(* the rows of a response stream hold integers: the result with each of    *)
(* them as the integer cell N(n) it stands for                             *)
Cells(qr) ==
    QueryResult(qr.columns,
                [k \in 1..Len(qr.rows) |->
                    Row(qr.rows[k].columns,
                        [j \in 1..Len(qr.rows[k].values) |->
                            SqlValue(Some(Value("N", qr.rows[k].values[j])))])])

(* SqlClient::query_scalar, the value it returns:                          *)
(* self.query(sql, params).await?.scalar()                                 *)
query_scalar(opened, items, T) ==
    LET qr == query_resp(opened, items)
    IN  IF qr.res # "Ok" THEN qr ELSE scalar(Cells(qr.value[1]), T)

(* a first_col_as that returns the cells converted before the failing row *)
RECURSIVE first_col_as_partial(_, _, _, _)
first_col_as_partial(self, T, i, out) ==
    IF i >= Len(self.rows) THEN Ok(out)
    ELSE IF get(self.rows[i + 1].values, 0) = None THEN Ok(out)
    ELSE LET t == try_from(T, get(self.rows[i + 1].values, 0)[1])
         IN  IF t.res # "Ok" THEN Ok(out)
             ELSE first_col_as_partial(self, T, i + 1, Append(out, t.value[1]))

(* QueryResult::first_col_as, from the i-th row (0-based) with the cells   *)
(* already converted in out                                                *)
RECURSIVE first_col_as(_, _, _, _)
first_col_as(self, T, i, out) ==
    IF i >= Len(self.rows) THEN Ok(out)
    ELSE IF get(self.rows[i + 1].values, 0) = None
         THEN Decode(<<"row has no columns">>)
    ELSE LET t == try_from(T, get(self.rows[i + 1].values, 0)[1])
         IN  IF t.res # "Ok" THEN t
             ELSE first_col_as(self, T, i + 1, Append(out, t.value[1]))

(* serde_json::from_value::<T> for a struct T given by the names of its    *)
(* fields: every field is read from the object, unknown keys are ignored,  *)
(* a missing field is a serde_json::Error (Error::JsonDecode)              *)
from_value(T, v) ==
    IF T \subseteq DOMAIN v THEN Ok([f \in T |-> v[f]]) ELSE Err("JsonDecode")

(* QueryResult::one_as *)
one_as(self, T) ==
    IF Len(self.rows) # 1 THEN Decode(<<"expected 1 row, got", Len(self.rows)>>)
    ELSE LET v == row_as_json(self, 0)
         IN  IF v.res # "Ok" THEN v ELSE from_value(T, v.value[1])

(* NamedParam { name, value: Option<SqlValue> } *)
NamedParam(name, value) == [name |-> name, value |-> value]

(* a bind that puts the parameter at the front of the list *)
bind_front(self, name, val) ==
    <<NamedParam(name, Some(arg_to_sql_value(SqlArg_from(val))))>> \o self

(* Params::bind on the inner list of a Params: name.into(), val.into() *)
bind(self, name, val) ==
    Append(self, NamedParam(name, Some(arg_to_sql_value(SqlArg_from(val)))))

(* the to_params that derive(ToParams) generates, from the i-th field on:  *)
(* one statement for each field, in the order of the struct.  A field is   *)
(* its ident, its #[sql(..)] attributes, whether its type is an Option,    *)
(* and the values it holds: one, or none for an Option that is None        *)
RECURSIVE to_params(_, _, _)
to_params(fields, i, p) ==
    IF i > Len(fields) THEN p
    ELSE LET f == fields[i]
             param_name == IF f.rename # None THEN f.rename[1] ELSE f.ident
         IN  IF f.skip THEN to_params(fields, i + 1, p)
             ELSE IF f.skip_if_none /\ f.is_option
             THEN IF f.v # <<>>
                  THEN to_params(fields, i + 1, bind(p, param_name, f.v[1]))
                  ELSE to_params(fields, i + 1, p)
             ELSE to_params(fields, i + 1, bind(p, param_name, f.v[1]))

----------------------------------------------------------------------------
(* The query DSL of the document search.  The keys the code looks up are   *)
(* written as its literals; the text of a JSON string is its bytes.        *)

InvalidInput(msg) == [res |-> "InvalidInput", value |-> None, msg |-> msg]

(* Map::get, and Value::as_str / as_u64 / as_bool / as_array / as_object *)
Map_get(m, key) == IF key \in DOMAIN m THEN Some(m[key]) ELSE None
as_str(v) == IF v.json = "string" THEN Some(v.v) ELSE None
as_u64(v) == IF v.json = "number" /\ v.v >= 0 THEN Some(v.v) ELSE None
as_bool(v) == IF v.json = "bool" THEN Some(v.v) ELSE None
as_array(v) == IF v.json = "array" THEN Some(v.v) ELSE None
as_object(v) == IF v.json = "object" THEN Some(v.v) ELSE None

(* Option::and_then and Option::unwrap_or *)
and_then(o, f(_)) == IF o = None THEN None ELSE f(o[1])
unwrap_or(o, default) == IF o = None THEN default ELSE o[1]

(* str::to_uppercase, on ASCII *)
to_uppercase(str) ==
    [i \in 1..Len(str) |-> IF str[i] >= 97 /\ str[i] <= 122 THEN str[i] - 32 ELSE str[i]]

(* map_operator *)
map_operator(op) ==
    CASE to_uppercase(op) = <<69, 81>> -> Ok(0)
      [] to_uppercase(op) = <<78, 69>> -> Ok(1)
      [] to_uppercase(op) = <<71, 84>> -> Ok(2)
      [] to_uppercase(op) = <<71, 69>> -> Ok(3)
      [] to_uppercase(op) = <<76, 84>> -> Ok(4)
      [] to_uppercase(op) = <<76, 69>> -> Ok(5)
      [] OTHER -> InvalidInput(<<"Unknown comparison operator", op>>)

(* serde_json_to_prost *)
RECURSIVE serde_json_to_prost(_)
serde_json_to_prost(json) ==
    CASE json.json = "null" -> [kind |-> "NullValue", v |-> 0]
      [] json.json = "bool" -> [kind |-> "BoolValue", v |-> json.v]
      [] json.json = "number" -> [kind |-> "NumberValue", v |-> as_f64(json.v)]
      [] json.json = "float" -> [kind |-> "NumberValue", v |-> json.v]
      [] json.json = "string" -> [kind |-> "StringValue", v |-> json.v]
      [] json.json = "array" ->
           [kind |-> "ListValue",
            v |-> [i \in 1..Len(json.v) |-> serde_json_to_prost(json.v[i])]]
      [] json.json = "object" ->
           [kind |-> "StructValue",
            v |-> [k \in DOMAIN json.v |-> serde_json_to_prost(json.v[k])]]

(* model::FieldComparison, model::QueryExpression, model::OrderByClause    *)
(* and model::Query                                                        *)
FieldComparison(field, operator, value) ==
    [field |-> field, operator |-> operator, value |-> value]
QueryExpression(field_comparisons) == [field_comparisons |-> field_comparisons]
OrderByClause(field, desc) == [field |-> field, desc |-> desc]
model_Query(collection_name, expressions, order_by, limit) ==
    [collection_name |-> collection_name, expressions |-> expressions,
     order_by |-> order_by, limit |-> limit]

(* json_to_field_comparison *)
json_to_field_comparison(json_map) ==
    LET field == and_then(Map_get(json_map, "field"), as_str)
        op == and_then(Map_get(json_map, "op"), as_str)
        value == Map_get(json_map, "value")
    IN  IF field = None THEN InvalidInput(<<"Missing 'field'">>)
        ELSE IF op = None THEN InvalidInput(<<"Missing 'op'">>)
        ELSE IF value = None THEN InvalidInput(<<"Missing 'value'">>)
        ELSE IF map_operator(op[1]).res # "Ok" THEN map_operator(op[1])
        ELSE Ok(FieldComparison(field[1], map_operator(op[1]).value[1],
                                Some(serde_json_to_prost(value[1]))))

(* json_to_immudb_query, the filter_map over the `order_by` array *)
RECURSIVE order_by_clauses(_, _)
order_by_clauses(arr, i) ==
    IF i > Len(arr) THEN <<>>
    ELSE LET m == as_object(arr[i])
             field == IF m = None THEN None
                      ELSE and_then(Map_get(m[1], "field"), as_str)
         IN  IF field = None THEN order_by_clauses(arr, i + 1)
             ELSE <<OrderByClause(field[1],
                        unwrap_or(and_then(Map_get(m[1], "desc"), as_bool), FALSE))>>
                      \o order_by_clauses(arr, i + 1)

(* json_to_immudb_query, `for item in and_array`, from the i-th item on *)
RECURSIVE and_expressions(_, _, _)
and_expressions(and_array, i, expressions) ==
    IF i > Len(and_array) THEN Ok(expressions)
    ELSE IF as_object(and_array[i]) = None
         THEN and_expressions(and_array, i + 1, expressions)
    ELSE LET comparison == json_to_field_comparison(as_object(and_array[i])[1])
         IN  IF comparison.res # "Ok" THEN comparison
             ELSE and_expressions(and_array, i + 1,
                      Append(expressions, QueryExpression(<<comparison.value[1]>>)))

(* json_to_immudb_query; the limits a query gives stay below 2^31, where   *)
(* `as u32` keeps the value                                                *)
json_to_immudb_query(json_query) ==
    IF json_query.json # "object" THEN InvalidInput(<<"Query must be a JSON object">>)
    ELSE LET map == json_query.v
             collection_name == and_then(Map_get(map, "collection_name"), as_str)
             limit == unwrap_or(and_then(Map_get(map, "limit"), as_u64), 100)
             order_arr == and_then(Map_get(map, "order_by"), as_array)
             order_by == IF order_arr = None THEN <<>>
                         ELSE order_by_clauses(order_arr[1], 1)
             where_clause == and_then(Map_get(map, "where"), as_object)
             and_array == IF where_clause = None THEN None
                          ELSE and_then(Map_get(where_clause[1], "AND"), as_array)
             expressions == IF and_array = None THEN Ok(<<>>)
                            ELSE and_expressions(and_array[1], 1, <<>>)
         IN  IF collection_name = None THEN InvalidInput(<<"Missing 'collection_name'">>)
             ELSE IF expressions.res # "Ok" THEN expressions
             ELSE Ok(model_Query(collection_name[1], expressions.value[1],
                                 order_by, limit))

----------------------------------------------------------------------------
(* Inputs *)

Answers(op) ==
    CASE op = "begin" -> {"ok", "nonascii", "err"}
      [] op = "query" -> {"ok", "err", "stream_err"}
      [] OTHER -> {"ok", "err"}

(* the calls a body makes: statements that succeed or fail, and a body    *)
(* that ends the transaction itself                                       *)
BodyCalls ==
    { [op |-> "exec", answer |-> "ok"], [op |-> "exec", answer |-> "err"],
      [op |-> "query", answer |-> "ok"], [op |-> "commit", answer |-> "ok"],
      [op |-> "rollback", answer |-> "ok"] }

RECURSIVE SeqsUpTo(_, _)
SeqsUpTo(S, n) ==
    IF n = 0 THEN {<<>>}
    ELSE LET shorter == SeqsUpTo(S, n - 1)
         IN  shorter \cup {Append(q, x) : q \in shorter, x \in S}

Scripts == SeqsUpTo(BodyCalls, MaxBody)

(* what a body returns: Ok(v), or an error of its own *)
BodyResults == {"Ok", "Decode"}

(* The messages of a response stream.  A chunk carries column metadata or  *)
(* none and up to MaxRows rows; the j-th row of the i-th message holds the  *)
(* integer 10*i + j, so that a row tells where it came from.  A Status ends *)
(* the stream.                                                              *)
ColumnLists ==
    { <<>>, <<Column("id", "INTEGER")>>,
      <<Column("n", "INTEGER"), Column("s", "VARCHAR")>> }

Shapes ==
    {[err |-> FALSE, columns |-> cl, n |-> n] : cl \in ColumnLists, n \in 0..MaxRows}
        \cup {[err |-> TRUE, columns |-> <<>>, n |-> 0]}

Message(i, sh) ==
    [err |-> sh.err, columns |-> sh.columns,
     rows |-> [j \in 1..sh.n |-> Row(<<>>, <<10 * i + j>>)]]

Streams ==
    { [i \in 1..Len(shs) |-> Message(i, shs[i])] :
        shs \in {q \in SeqsUpTo(Shapes, MaxChunks) :
                    \A i \in 1..(Len(q) - 1) : ~q[i].err} }

Payloads ==
    { SqlExecResult_default, SqlExecResult(1, FALSE), SqlExecResult(0, TRUE) }

NoCall == [op |-> "none", res |-> "Ok", body |-> <<>>, bodyRes |-> "Ok"]
Called(op, res) == [op |-> op, res |-> res, body |-> <<>>, bodyRes |-> "Ok"]

----------------------------------------------------------------------------
(* The state machine *)

NoOp == [op |-> "none", h |-> 0, res |-> "Ok", rpcs |-> <<>>]
NoKeepalive == [task |-> 0, md |-> NoMetadata, state |-> "none"]

(* before connect: no session state, no handle, no task *)
NotConnected ==
    /\ arcs = <<>>
    /\ handles = [i \in 1..MaxHandles |-> NoHandle]
    /\ tasks = <<>>
    /\ cancelled = FALSE
    /\ tokens = 0
    /\ sop = NoOp
    /\ kop = NoKeepalive

(* an Interceptor::call not started: what it loaded from db_token, whether *)
(* a set_token had returned, or held the lock, when it started             *)
Idle == [pc |-> "idle", some |-> FALSE, b1 |-> 0, b2 |-> 0,
         after_set |-> FALSE, raced |-> FALSE]

(* a set_token not started *)
NotSetting == [pc |-> "idle", mv |-> <<>>]

(* no value handed to the codec *)
NoArg == [kind |-> "none"]
NoConversion == [op |-> "none"]

NothingConverted == arg = NoArg /\ conv = NoConversion

(* RwLock::new(None), and nobody calling yet *)
Unlocked ==
    /\ db_token = [some |-> FALSE, b1 |-> 0, b2 |-> 0]
    /\ lock = [writer |-> FALSE, readers |-> 0]
    /\ setters = [k \in 1..MaxSetters |-> NotSetting]
    /\ callers = [c \in 1..MaxCallers |-> Idle]

Init ==
    /\ clients = {}
    /\ tx_id = [e \in Executors |-> None]
    /\ issued = 0
    /\ by = 0
    /\ sent = <<>>
    /\ call = NoCall
    /\ stream = <<>>
    /\ payload = SqlExecResult_default
    /\ result = NoResult
    /\ NotConnected
    /\ Unlocked
    /\ NothingConverted

(* a call on e starts with e's tx_id and nothing sent *)
Enter(e) == Run(tx_id[e], <<>>, issued, "Ok")

(* a call on e returned: its effects and what the caller sees *)
Returned(e, c, cl) ==
    /\ c.issued <= MaxTx
    /\ tx_id' = [tx_id EXCEPT ![e] = c.tx_id]
    /\ issued' = c.issued
    /\ by' = e
    /\ sent' = c.sent
    /\ call' = cl
    /\ UNCHANGED <<clients, svars, tvars, cvars>>

Return(e, c, cl) == Returned(e, c, cl) /\ UNCHANGED qvars

(* ImmuDB::sql / SqlClient::new *)
SqlClient_new(e) ==
    /\ e \notin clients
    /\ clients' = clients \cup {e}
    /\ tx_id' = [tx_id EXCEPT ![e] = None]
    /\ by' = e
    /\ sent' = <<>>
    /\ call' = Called("new", "Ok")
    /\ UNCHANGED <<issued, qvars, svars, tvars, cvars>>

(* #[derive(Clone)] on SqlClient: every field is cloned *)
SqlClient_clone(src, e) ==
    /\ src \in clients
    /\ e \notin clients
    /\ clients' = clients \cup {e}
    /\ tx_id' = [tx_id EXCEPT ![e] = tx_id[src]]
    /\ by' = e
    /\ sent' = <<>>
    /\ call' = Called("clone", "Ok")
    /\ UNCHANGED <<issued, qvars, svars, tvars, cvars>>

Exec(e) ==
    /\ e \in clients
    /\ \E a \in Answers("exec") :
         LET c == exec(Enter(e), a = "ok") IN Return(e, c, Called("exec", c.res))

Query(e) ==
    /\ e \in clients
    /\ \E a \in Answers("query") :
         LET c == query(Enter(e), a) IN Return(e, c, Called("query", c.res))

Begin(e) ==
    /\ e \in clients
    /\ \E a \in Answers("begin") :
         LET c == begin(Enter(e), a) IN Return(e, c, Called("begin", c.res))

Commit(e) ==
    /\ e \in clients
    /\ \E a \in Answers("commit") :
         LET c == commit(Enter(e), a = "ok") IN Return(e, c, Called("commit", c.res))

Rollback(e) ==
    /\ e \in clients
    /\ \E a \in Answers("rollback") :
         LET c == rollback(Enter(e), a = "ok")
         IN  Return(e, c, Called("rollback", c.res))

WithTx(e) ==
    /\ e \in clients
    /\ \E a \in Answers("begin"), script \in Scripts,
          bodyRes \in BodyResults, fin \in BOOLEAN :
         \* script is the body handed to with_tx; when begin fails, bodies
         \* of successful exec calls stand for all, and what the body returns
         \* and the answer to commit or rollback do not matter
         /\ a # "ok" =>
              /\ \A i \in 1..Len(script) : script[i] = [op |-> "exec", answer |-> "ok"]
              /\ bodyRes = "Ok" /\ fin
         /\ LET c == with_tx(Enter(e), a, script, bodyRes, fin)
            IN  Return(e, c, [op |-> "with_tx", res |-> c.res,
                              body |-> script, bodyRes |-> bodyRes])

Next ==
    \/ \E e \in Executors : SqlClient_new(e)
    \/ \E src, e \in Executors : SqlClient_clone(src, e)
    \/ \E e \in Executors : Exec(e)
    \/ \E e \in Executors : Query(e)
    \/ \E e \in Executors : Begin(e)
    \/ \E e \in Executors : Commit(e)
    \/ \E e \in Executors : Rollback(e)
    \/ \E e \in Executors : WithTx(e)

Spec == Init /\ [][Next]_vars

----------------------------------------------------------------------------
(* exec and query with the values they return.  The server's answers, the   *)
(* response stream and the exec payload, are fixed at the start; the calls  *)
(* are made on one executor, in Autocommit or in a transaction.             *)

FirstExecutor == 1

InitQuery ==
    /\ clients = {}
    /\ tx_id = [e \in Executors |-> None]
    /\ issued = 0
    /\ by = 0
    /\ sent = <<>>
    /\ call = NoCall
    /\ stream \in Streams
    /\ payload \in Payloads
    /\ stream = <<>> \/ payload = SqlExecResult_default
    /\ result = NoResult
    /\ NotConnected
    /\ Unlocked
    /\ NothingConverted

(* SqlClient::query, with the stream it consumes *)
QueryRows(e) ==
    /\ e \in clients
    /\ \E opened \in BOOLEAN :
         LET a == IF ~opened THEN "err"
                  ELSE IF \E i \in 1..Len(stream) : stream[i].err THEN "stream_err"
                  ELSE "ok"
             c == query(Enter(e), a)
         IN  /\ Returned(e, c, Called("query", c.res))
             /\ result' = query_resp(opened, stream)
    /\ UNCHANGED <<stream, payload>>

(* SqlClient::query_scalar::<T>, with the stream it consumes *)
QueryScalar(e) ==
    /\ e \in clients
    /\ \E opened \in BOOLEAN, T \in {"i64", "bool"} :
         LET a == IF ~opened THEN "err"
                  ELSE IF \E i \in 1..Len(stream) : stream[i].err THEN "stream_err"
                  ELSE "ok"
             c == query(Enter(e), a)
             r == query_scalar(opened, stream, T)
         IN  /\ Returned(e, c, Called("query_scalar", r.res))
             /\ result' = r
    /\ UNCHANGED <<stream, payload>>

(* SqlClient::exec, with the payload it is answered *)
ExecPayload(e) ==
    /\ e \in clients
    /\ \E a \in BOOLEAN :
         LET c == exec(Enter(e), a)
         IN  /\ Returned(e, c, Called("exec", c.res))
             /\ result' = exec_resp(Enter(e), a, payload)
    /\ UNCHANGED <<stream, payload>>

NextQuery ==
    \/ SqlClient_new(FirstExecutor)
    \/ Begin(FirstExecutor)
    \/ Commit(FirstExecutor)
    \/ QueryRows(FirstExecutor)
    \/ QueryScalar(FirstExecutor)
    \/ ExecPayload(FirstExecutor)

SpecQuery == InitQuery /\ [][NextQuery]_vars

----------------------------------------------------------------------------
(* The connection: connect, its handles, database selection, teardown, and  *)
(* the keepalive task running beside them.                                  *)

InitSession == Init

Now == World(arcs, tasks, cancelled, tokens)

(* a foreground operation on handle h ended with o *)
Done(op, h, o) ==
    /\ o.w.tokens <= MaxTokens
    /\ arcs' = o.w.arcs
    /\ tasks' = o.w.tasks
    /\ cancelled' = o.w.cancelled
    /\ tokens' = o.w.tokens
    /\ sop' = [op |-> op, h |-> h, res |-> o.res, rpcs |-> o.rpcs]
    /\ UNCHANGED <<kop, mvars, qvars, tvars, cvars>>

Free(i) == handles[i].kind = "none" /\ \A j \in 1..(i - 1) : handles[j].kind # "none"

Connect ==
    /\ arcs = <<>>
    /\ \E oa \in {"ok", "err", "nonascii"}, ua \in {"ok", "err", "nonascii"} :
         /\ oa # "ok" => ua = "ok"
         /\ LET o == connect(Now, oa, ua)
            IN  /\ Done("connect", 1, o)
                /\ handles' = IF o.res = "Ok" THEN [handles EXCEPT ![1] = o.handle]
                              ELSE handles

UseDatabase(h) ==
    /\ handles[h].kind = "db"
    /\ \E ua \in {"ok", "err", "nonascii"} :
         Done("use_database", h, use_database(Now, handles[h], ua))
    /\ UNCHANGED handles

Sql(h) ==
    /\ handles[h].kind = "db"
    /\ \E i \in 1..MaxHandles :
         /\ Free(i)
         /\ LET o == derive_client(Now, handles[h], "sql")
            IN  Done("sql", i, o) /\ handles' = [handles EXCEPT ![i] = o.handle]

Doc(h) ==
    /\ handles[h].kind = "db"
    /\ \E i \in 1..MaxHandles :
         /\ Free(i)
         /\ LET o == derive_client(Now, handles[h], "doc")
            IN  Done("doc", i, o) /\ handles' = [handles EXCEPT ![i] = o.handle]

CloneDb(h) ==
    /\ handles[h].kind = "db"
    /\ \E i \in 1..MaxHandles :
         /\ Free(i)
         /\ LET o == ImmuDB_clone(Now, handles[h])
            IN  Done("clone", i, o) /\ handles' = [handles EXCEPT ![i] = o.handle]

DropDb(h) ==
    /\ handles[h].kind = "db"
    /\ LET o == ImmuDB_drop(Now, handles[h])
       IN  Done("drop", h, o) /\ handles' = [handles EXCEPT ![h] = o.handle]

Request(h) ==
    /\ handles[h].kind \in {"db", "sql", "doc"}
    /\ \E answer \in BOOLEAN : Done("request", h, request(Now, handles[h], answer))
    /\ UNCHANGED handles

(* the task's select!: the tick arm starts cli.keep_alive(()) *)
KaTick(t) ==
    /\ t \in 1..Len(tasks)
    /\ tasks[t].pc = "select"
    /\ tasks' = [tasks EXCEPT ![t] = Task("rpc", tasks[t].service)]
    /\ kop' = [task |-> t, md |-> SessionInterceptor_call(arcs[tasks[t].service]),
               state |-> "inflight"]
    /\ UNCHANGED <<arcs, handles, cancelled, tokens, sop, mvars, qvars, tvars, cvars>>

(* the keepalive RPC returned, with success or with a Status *)
KaReturn(t) ==
    /\ t \in 1..Len(tasks)
    /\ tasks[t].pc = "rpc"
    /\ \E answer \in BOOLEAN :
         /\ tasks' = [tasks EXCEPT ![t] = keep_alive_done(tasks[t], answer)]
         /\ kop' = [kop EXCEPT !.task = t,
                               !.state = IF answer THEN "ok" ELSE "failed"]
    /\ UNCHANGED <<arcs, handles, cancelled, tokens, sop, mvars, qvars, tvars, cvars>>

(* the task's select!: the cancelled arm breaks out of the loop *)
KaCancel(t) ==
    /\ t \in 1..Len(tasks)
    /\ tasks[t].pc = "select"
    /\ cancelled
    /\ tasks' = [tasks EXCEPT ![t] = Task("done", tasks[t].service)]
    /\ UNCHANGED <<arcs, handles, cancelled, tokens, sop, kop, mvars, qvars, tvars, cvars>>

NextSession ==
    \/ Connect
    \/ \E h \in 1..MaxHandles : UseDatabase(h)
    \/ \E h \in 1..MaxHandles : Sql(h)
    \/ \E h \in 1..MaxHandles : Doc(h)
    \/ \E h \in 1..MaxHandles : CloneDb(h)
    \/ \E h \in 1..MaxHandles : DropDb(h)
    \/ \E h \in 1..MaxHandles : Request(h)
    \/ \E t \in 1..Len(tasks) : KaTick(t)
    \/ \E t \in 1..Len(tasks) : KaReturn(t)
    \/ \E t \in 1..Len(tasks) : KaCancel(t)

SpecSession == InitSession /\ [][NextSession]_vars

(* the connection's keepalive task *)
KeepaliveTask == 1

(* The runtime keeps polling the spawned task: the interval fires again    *)
(* and again, and a cancelled token keeps the cancelled arm ready until it *)
(* is taken.  Nothing bounds the time a keepalive RPC takes: the endpoint  *)
(* has a connect timeout and no request timeout, so its return is not fair *)
SpecKeepalive ==
    /\ InitSession
    /\ [][NextSession]_vars
    /\ WF_vars(KaTick(KeepaliveTask))
    /\ SF_vars(KaCancel(KeepaliveTask))

----------------------------------------------------------------------------
(* What the properties below observe *)

(* the step is a call of one of ops on e *)
Calls(e, ops) == by' = e /\ call'.op \in ops

IsStatement(r) == r.rpc \in {"sql_exec", "sql_query", "tx_sql_exec", "tx_sql_query"}
IsTxScoped(r) == r.rpc \in {"tx_sql_exec", "tx_sql_query"}
Names(rpcs) == {rpcs[i].rpc : i \in 1..Len(rpcs)}

(* the most recent call was a with_tx whose begin succeeded, so its body ran *)
BodyRan ==
    /\ call.op = "with_tx"
    /\ sent # <<>>
    /\ sent[1].rpc = "new_tx"
    /\ sent[1].ok
    /\ MetadataValue_try_from(sent[1].id) # None

(* the body made only statement calls *)
OnlyStatements(script) ==
    \A i \in 1..Len(script) : script[i].op \in {"exec", "query"}

----------------------------------------------------------------------------
(* C1: commit() on an executor that is InTransaction issues the commit RPC  *)
(* carrying the stored transaction id and then clears the transaction id    *)
(* whether the RPC succeeded or failed; a failure is returned to the caller *)
(* and the id is absent afterwards all the same.                            *)
C1_CommitAlwaysClears ==
    [][\A e \in Executors :
         (tx_id[e] # None /\ Calls(e, {"commit"})) =>
            /\ Len(sent') = 1
            /\ sent'[1].rpc = "commit"
            /\ sent'[1].transactionid = Some(tx_id[e][1])
            /\ tx_id'[e] = None
            /\ call'.res = (IF sent'[1].ok THEN "Ok" ELSE "Protocol")]_vars

(* C2: rollback() on an executor that is InTransaction issues the rollback  *)
(* RPC carrying the stored transaction id, clears the id whatever the RPC's *)
(* outcome, and returns success even when the RPC failed.                   *)
C2_RollbackSwallows ==
    [][\A e \in Executors :
         (tx_id[e] # None /\ Calls(e, {"rollback"})) =>
            /\ Len(sent') = 1
            /\ sent'[1].rpc = "rollback"
            /\ sent'[1].transactionid = Some(tx_id[e][1])
            /\ tx_id'[e] = None
            /\ call'.res = "Ok"]_vars

(* a rollback whose RPC failed has returned Ok and left no transaction id *)
C2_Witness ==
    /\ by \in clients
    /\ call.op = "rollback"
    /\ Len(sent) = 1
    /\ sent[1].rpc = "rollback"
    /\ ~sent[1].ok
    /\ call.res = "Ok"
    /\ tx_id[by] = None

(* C3: a statement issued InTransaction uses the transaction-scoped RPC and *)
(* carries "transactionid" equal to the id the opening begin returned; a    *)
(* statement issued in Autocommit uses the plain RPC and carries none.      *)
(* First for exec and query called directly, then for the statements of a   *)
(* with_tx body, whose transaction the new_tx at the head of the trace      *)
(* opened and the first commit or rollback in the trace closed.             *)
C3_DirectStatement ==
    \A e \in Executors :
        Calls(e, {"exec", "query"}) =>
            /\ Len(sent') = 1
            /\ IsStatement(sent'[1])
            /\ sent'[1].rpc \in (IF call'.op = "exec"
                                 THEN {"sql_exec", "tx_sql_exec"}
                                 ELSE {"sql_query", "tx_sql_query"})
            /\ IF tx_id[e] # None
               THEN /\ IsTxScoped(sent'[1])
                    /\ sent'[1].transactionid = Some(tx_id[e][1])
                    /\ \E n \in 1..issued : tx_id[e][1] = ServerTxId(n)
               ELSE /\ ~IsTxScoped(sent'[1])
                    /\ sent'[1].transactionid = None

C3_BodyStatement ==
    BodyRan =>
        \A i \in 2..Len(sent) :
            IsStatement(sent[i]) =>
                IF \A j \in 2..(i - 1) : sent[j].rpc \notin {"commit", "rollback"}
                THEN /\ IsTxScoped(sent[i])
                     /\ sent[i].transactionid = Some(sent[1].id)
                ELSE /\ ~IsTxScoped(sent[i])
                     /\ sent[i].transactionid = None

C3_StatementsCarryTx == [][C3_DirectStatement]_vars /\ []C3_BodyStatement

(* a query was issued directly on an executor holding a transaction id and  *)
(* went out transaction-scoped with that id                                 *)
C3_Witness ==
    /\ by \in clients
    /\ call.op = "query"
    /\ Len(sent) = 1
    /\ sent[1].rpc = "tx_sql_query"
    /\ tx_id[by] # None
    /\ sent[1].transactionid = Some(tx_id[by][1])

(* C4: with_tx whose body fails after statements only: a rollback RPC is    *)
(* issued for the transaction, the transaction id is cleared, no commit RPC *)
(* is issued, and the caller gets the body's error, not rollback's outcome. *)
C4_BodyFailureRollsBack ==
    (BodyRan /\ call.bodyRes # "Ok" /\ OnlyStatements(call.body)) =>
        /\ Len(sent) = Len(call.body) + 2
        /\ sent[Len(sent)].rpc = "rollback"
        /\ sent[Len(sent)].transactionid = Some(sent[1].id)
        /\ "commit" \notin Names(sent)
        /\ tx_id[by] = None
        /\ call.res = call.bodyRes

(* a body failed after two successful exec calls and the rollback RPC       *)
(* failed too                                                               *)
C4_Witness ==
    /\ BodyRan
    /\ call.bodyRes = "Decode"
    /\ call.body = <<[op |-> "exec", answer |-> "ok"], [op |-> "exec", answer |-> "ok"]>>
    /\ ~sent[Len(sent)].ok
    /\ call.res = "Decode"

(* C5: with_tx whose body succeeds: the RPCs are new_tx, then the body's    *)
(* statements, each carrying the transaction id, then commit; the body's    *)
(* value is returned only if the commit succeeded, a commit failure is      *)
(* returned instead, and no rollback RPC is issued.                         *)
C5_BodySuccessCommits ==
    (BodyRan /\ call.bodyRes = "Ok" /\ OnlyStatements(call.body)) =>
        /\ Len(sent) = Len(call.body) + 2
        /\ \A i \in 1..Len(call.body) :
              /\ sent[i + 1].rpc = (IF call.body[i].op = "exec"
                                    THEN "tx_sql_exec" ELSE "tx_sql_query")
              /\ sent[i + 1].ok = (call.body[i].answer = "ok")
              /\ sent[i + 1].transactionid = Some(sent[1].id)
        /\ sent[Len(sent)].rpc = "commit"
        /\ sent[Len(sent)].transactionid = Some(sent[1].id)
        /\ "rollback" \notin Names(sent)
        /\ call.res = (IF sent[Len(sent)].ok THEN "Ok" ELSE "Protocol")

(* a body of two statements succeeded and the commit failed *)
C5_Witness ==
    /\ BodyRan
    /\ call.bodyRes = "Ok"
    /\ Len(call.body) = 2
    /\ OnlyStatements(call.body)
    /\ sent[Len(sent)].rpc = "commit"
    /\ ~sent[Len(sent)].ok
    /\ call.res = "Protocol"

(* C6: begin is valid only from Autocommit: whenever a begin issues a       *)
(* new-transaction RPC or stores a transaction id, the executor held no     *)
(* transaction id immediately before.                                       *)
C6_BeginOnlyFromAutocommit ==
    [][\A e \in Executors :
         (Calls(e, {"begin", "with_tx"}) /\ "new_tx" \in Names(sent')) =>
            tx_id[e] = None]_vars

(* C7: begin from Autocommit stores the id the new-transaction RPC returned *)
(* and becomes InTransaction; an id that is no valid metadata value gives   *)
(* an Unexpected error and a failed RPC gives the RPC's error, and in both  *)
(* cases the state stays Autocommit.                                        *)
C7_BeginOutcomes ==
    [][\A e \in Executors :
         (tx_id[e] = None /\ Calls(e, {"begin"})) =>
            /\ Len(sent') = 1
            /\ sent'[1].rpc = "new_tx"
            /\ sent'[1].transactionid = None
            /\ IF ~sent'[1].ok
               THEN call'.res = "Protocol" /\ tx_id'[e] = None
               ELSE IF \E i \in 1..Len(sent'[1].id) :
                          /\ sent'[1].id[i] \notin 32..126
                          /\ sent'[1].id[i] # 9
               THEN call'.res = "Unexpected" /\ tx_id'[e] = None
               ELSE call'.res = "Ok" /\ tx_id'[e] = Some(sent'[1].id)]_vars

(* a begin was answered with a non-ASCII id, failed with Unexpected and     *)
(* left the executor in Autocommit                                          *)
C7_Witness ==
    /\ by \in clients
    /\ call.op = "begin"
    /\ Len(sent) = 1
    /\ sent[1].ok
    /\ sent[1].id = NonAsciiTxId
    /\ call.res = "Unexpected"
    /\ tx_id[by] = None

(* C8: commit() and rollback() in Autocommit return success at once, issue  *)
(* no RPC and leave the state Autocommit.                                   *)
C8_NoOpInAutocommit ==
    [][\A e \in Executors :
         (tx_id[e] = None /\ Calls(e, {"commit", "rollback"})) =>
            /\ sent' = <<>>
            /\ call'.res = "Ok"
            /\ tx_id'[e] = None]_vars

(* a commit returned Ok without issuing an RPC *)
C8_Witness ==
    /\ by \in clients
    /\ call.op = "commit"
    /\ sent = <<>>
    /\ call.res = "Ok"
    /\ tx_id[by] = None

(* C9: after begin directly followed by commit, and likewise by rollback,   *)
(* the executor is in Autocommit and the next exec or query carries no      *)
(* "transactionid".                                                         *)
C9_LifecycleEndsInAutocommit ==
    [][\A e \in Executors :
         ( /\ by = e /\ call.op = "begin" /\ call.res = "Ok"
           /\ Calls(e, {"commit", "rollback"}) ) =>
            /\ tx_id'[e] = None
            /\ exec(Run(tx_id'[e], <<>>, issued', "Ok"), TRUE).sent[1].transactionid = None
            /\ query(Run(tx_id'[e], <<>>, issued', "Ok"), "ok").sent[1].transactionid = None]_vars

(* C10: a transaction id is held by at most one executor instance, and      *)
(* every executor newly obtained from the connection or derived from        *)
(* another executor starts without a transaction id.                        *)
C10_HeldByOne ==
    \A e1, e2 \in clients :
        (e1 # e2 /\ tx_id[e1] # None) => tx_id[e1] # tx_id[e2]

C10_StartsWithoutTx ==
    \A e \in Executors : (e \notin clients /\ e \in clients') => tx_id'[e] = None

C10_ExclusiveOwnership == []C10_HeldByOne /\ [][C10_StartsWithoutTx]_vars

----------------------------------------------------------------------------
(* What the properties of query and exec observe *)

Queried == call.op = "query" /\ result.res # "none"

HasMeta(i) == stream[i].columns # <<>>
StreamRows == UNION {{stream[i].rows[j] : j \in 1..Len(stream[i].rows)} : i \in 1..Len(stream)}
StreamFailed == \E i \in 1..Len(stream) : stream[i].err

(* three chunks of two rows, the first alone carrying one column *)
ThreeByTwo ==
    /\ Len(stream) = 3
    /\ stream[1].columns = <<Column("id", "INTEGER")>>
    /\ stream[2].columns = <<>>
    /\ stream[3].columns = <<>>
    /\ \A i \in 1..3 : ~stream[i].err /\ Len(stream[i].rows) = 2

(* C11: query's columns are the metadata of the first chunk that carries    *)
(* any (later metadata is ignored), its rows are all rows of all chunks in  *)
(* chunk order and in-chunk order; three chunks of two rows with one column *)
(* in the first give exactly 1 column and 6 rows in chunk-then-row order.   *)
C11_QueryAggregates ==
    (Queried /\ result.res = "Ok") =>
        LET qr == result.value[1]
        IN  /\ IF \E i \in 1..Len(stream) : HasMeta(i)
               THEN \E i \in 1..Len(stream) :
                       /\ HasMeta(i)
                       /\ \A j \in 1..(i - 1) : ~HasMeta(j)
                       /\ qr.columns = stream[i].columns
               ELSE qr.columns = <<>>
            /\ {qr.rows[k] : k \in 1..Len(qr.rows)} = StreamRows
            /\ \A k, l \in 1..Len(qr.rows) :
                  k < l => qr.rows[k].values[1] < qr.rows[l].values[1]
            /\ ThreeByTwo =>
                  /\ Len(qr.columns) = 1
                  /\ [k \in 1..Len(qr.rows) |-> qr.rows[k].values[1]]
                        = <<11, 12, 21, 22, 31, 32>>

(* the three-by-two stream was aggregated *)
C11_Witness ==
    /\ Queried
    /\ result.res = "Ok"
    /\ ThreeByTwo
    /\ Len(result.value[1].rows) = 6

(* C12: query is all-or-nothing: when the stream yields an error after any  *)
(* number of chunks, query returns that error and no QueryResult.           *)
C12_QueryAllOrNothing ==
    (Queried /\ StreamFailed) =>
        /\ result.res = "Protocol"
        /\ result.value = None
        /\ call.res = "Protocol"

(* a stream failed after two chunks that carried rows, and query returned   *)
(* the error                                                                *)
C12_Witness ==
    /\ Queried
    /\ sent[1].rpc \in {"sql_query", "tx_sql_query"}
    /\ Len(stream) = 3
    /\ stream[1].rows # <<>>
    /\ stream[2].rows # <<>>
    /\ stream[3].err
    /\ result = Err("Protocol")

(* C13: exec in a transaction returns the default (empty) payload whatever  *)
(* the server answered; exec in Autocommit returns the server's payload.    *)
C13_ExecPayload ==
    [][\A e \in Executors :
         (Calls(e, {"exec"}) /\ call'.res = "Ok") =>
            /\ result'.res = "Ok"
            /\ result'.value = (IF tx_id[e] # None
                                THEN Some(SqlExecResult_default)
                                ELSE Some(payload))]_vars

(* an exec in a transaction was answered a payload that is not the default  *)
(* one and returned the default one                                         *)
C13_Witness ==
    /\ call.op = "exec"
    /\ call.res = "Ok"
    /\ sent[1].rpc = "tx_sql_exec"
    /\ payload # SqlExecResult_default
    /\ result = Ok(SqlExecResult_default)

----------------------------------------------------------------------------
(* set_token and Interceptor::call against the RwLock of db_token, one     *)
(* memory access per step.  The Option<MetadataValue> takes three words:   *)
(* the discriminant and the two bytes of a two-byte token.                 *)

(* the token invocation k of set_token is given: a two-byte string *)
SetterToken(k) == <<48 + k, 48 + k>>
NonAsciiWord == <<233, 233>>

(* a read() that does not wait for the writer *)
RwLock_read_unguarded(l) == TRUE

(* RwLock::read returns once no writer holds the lock *)
RwLock_read(l) == ~l.writer

(* RwLock::write returns once nobody holds the lock *)
RwLock_write(l) == ~l.writer /\ l.readers = 0

(* set_token: MetadataValue::try_from(token), `?` on its error *)
SetStart(k) ==
    /\ setters[k].pc = "idle"
    /\ \E token \in {SetterToken(k), NonAsciiWord} :
         LET mv == MetadataValue_try_from(token)
         IN  setters' = [setters EXCEPT ![k] =
                 IF mv = None THEN [pc |-> "InvalidInput", mv |-> <<>>]
                 ELSE [pc |-> "write", mv |-> mv[1]]]
    /\ UNCHANGED <<db_token, lock, callers, mvars, qvars, svars, cvars>>

(* set_token: self.state.db_token.write().unwrap() *)
SetLock(k) ==
    /\ setters[k].pc = "write"
    /\ RwLock_write(lock)
    /\ lock' = [lock EXCEPT !.writer = TRUE]
    /\ setters' = [setters EXCEPT ![k].pc = "store_some"]
    /\ UNCHANGED <<db_token, callers, mvars, qvars, svars, cvars>>

(* set_token: `*guard = Some(mv)`, word by word *)
SetStore(k) ==
    /\ setters[k].pc \in {"store_some", "store_b1", "store_b2"}
    /\ db_token' = CASE setters[k].pc = "store_some" -> [db_token EXCEPT !.some = TRUE]
                     [] setters[k].pc = "store_b1" ->
                          [db_token EXCEPT !.b1 = setters[k].mv[1]]
                     [] setters[k].pc = "store_b2" ->
                          [db_token EXCEPT !.b2 = setters[k].mv[2]]
    /\ setters' = [setters EXCEPT ![k].pc =
                     CASE setters[k].pc = "store_some" -> "store_b1"
                       [] setters[k].pc = "store_b1" -> "store_b2"
                       [] setters[k].pc = "store_b2" -> "unlock"]
    /\ UNCHANGED <<lock, callers, mvars, qvars, svars, cvars>>

(* set_token: the write guard drops at the end of the statement; Ok(()) *)
SetUnlock(k) ==
    /\ setters[k].pc = "unlock"
    /\ lock' = [lock EXCEPT !.writer = FALSE]
    /\ setters' = [setters EXCEPT ![k].pc = "Ok"]
    /\ UNCHANGED <<db_token, callers, mvars, qvars, svars, cvars>>

(* call: the request arrives; sessionid and immudb-uuid are inserted *)
CallStart(c) ==
    /\ callers[c].pc = "idle"
    /\ callers' = [callers EXCEPT ![c].pc = "read",
                                  ![c].after_set = \E k \in 1..MaxSetters : setters[k].pc = "Ok",
                                  ![c].raced = lock.writer]
    /\ UNCHANGED <<db_token, lock, setters, mvars, qvars, svars, cvars>>

(* call: self.state.db_token.read().unwrap() *)
CallLock(c) ==
    /\ callers[c].pc = "read"
    /\ RwLock_read(lock)
    /\ lock' = [lock EXCEPT !.readers = @ + 1]
    /\ callers' = [callers EXCEPT ![c].pc = "load_some"]
    /\ UNCHANGED <<db_token, setters, mvars, qvars, svars, cvars>>

(* call: `if let Some(tok) = ...as_ref()` and tok.clone(), word by word *)
CallLoad(c) ==
    /\ callers[c].pc \in {"load_some", "load_b1", "load_b2"}
    /\ callers' = [callers EXCEPT ![c] =
         CASE @.pc = "load_some" ->
                [@ EXCEPT !.some = db_token.some,
                          !.pc = IF db_token.some THEN "load_b1" ELSE "unlock"]
           [] @.pc = "load_b1" -> [@ EXCEPT !.b1 = db_token.b1, !.pc = "load_b2"]
           [] @.pc = "load_b2" -> [@ EXCEPT !.b2 = db_token.b2, !.pc = "unlock"]]
    /\ UNCHANGED <<db_token, lock, setters, mvars, qvars, svars, cvars>>

(* call: authorization is inserted, the read guard drops, Ok(req) *)
CallUnlock(c) ==
    /\ callers[c].pc = "unlock"
    /\ lock' = [lock EXCEPT !.readers = @ - 1]
    /\ callers' = [callers EXCEPT ![c].pc = "sent"]
    /\ UNCHANGED <<db_token, setters, mvars, qvars, svars, cvars>>

(* the metadata a finished call attached *)
Attached(c) ==
    Metadata(Some(SessionId), Some(ServerUuid),
             IF callers[c].some THEN Some(<<callers[c].b1, callers[c].b2>>) ELSE None)

NextToken ==
    \/ \E k \in 1..MaxSetters : SetStart(k)
    \/ \E k \in 1..MaxSetters : SetLock(k)
    \/ \E k \in 1..MaxSetters : SetStore(k)
    \/ \E k \in 1..MaxSetters : SetUnlock(k)
    \/ \E c \in 1..MaxCallers : CallStart(c)
    \/ \E c \in 1..MaxCallers : CallLock(c)
    \/ \E c \in 1..MaxCallers : CallLoad(c)
    \/ \E c \in 1..MaxCallers : CallUnlock(c)

InitToken == Init

SpecToken == InitToken /\ [][NextToken]_vars

----------------------------------------------------------------------------
(* Claims about the connection *)

(* the step is a step of keepalive task t *)
KaStep(t) == t \in 1..Len(tasks) /\ tasks'[t] # tasks[t]

(* the step is a foreground operation named in ops *)
Did(ops) ==
    /\ sop'.op \in ops
    /\ \A t \in 1..Len(tasks) : ~KaStep(t)
    /\ <<arcs, handles, tasks, cancelled, tokens, sop>>'
         # <<arcs, handles, tasks, cancelled, tokens, sop>>

ForegroundOps == {"connect", "use_database", "sql", "doc", "clone", "drop", "request"}

(* the step starts a keepalive RPC *)
KaSent == kop'.state = "inflight" /\ \E t \in 1..Len(tasks) : KaStep(t)

(* the RPCs of the most recent foreground operation that went through the  *)
(* intercepted service; open_session goes over the bare channel            *)
Intercepted(o) == {i \in 1..Len(o.rpcs) : o.rpcs[i].rpc # "open_session"}

(* the bearer token stored when a step begins; connect begins with a new   *)
(* session state, which holds none                                         *)
StoredToken == IF arcs = <<>> THEN None ELSE arcs[1].db_token

Augmented(md) ==
    /\ md.sessionid = Some(SessionId)
    /\ md.immudb_uuid = Some(ServerUuid)
    /\ md.authorization = StoredToken

(* C14: every RPC sent through the intercepted service carries the session *)
(* id and server uuid of open_session, and carries authorization exactly   *)
(* when a token is stored, with the stored token as its value              *)
C14_CallAugmentation ==
    [][ /\ Did(ForegroundOps) =>
             \A i \in Intercepted(sop') : Augmented(sop'.rpcs[i].md)
        /\ KaSent => Augmented(kop'.md) ]_vars

(* a request after a second database selection, and the use_database of    *)
(* connect, sent before any token was stored                               *)
C14_Witness ==
    /\ sop.op = "request"
    /\ sop.rpcs[1].md = Metadata(Some(SessionId), Some(ServerUuid), Some(ServerToken(2)))
    /\ kop.state = "inflight"

(* the token of the most recent successful database selection *)
SelectedToken == Some(ServerToken(tokens))

(* C16: once a database selection has succeeded, every RPC issued later    *)
(* through a handle of the connection (the ImmuDB and its clones, the sql  *)
(* and doc clients made before or after, the keepalive task) carries the   *)
(* token of the latest selection                                           *)
C16_SelectionVisibleEverywhere ==
    [][ /\ Did(ForegroundOps \ {"connect"}) =>
             \A i \in Intercepted(sop') :
                 sop'.rpcs[i].md.authorization = SelectedToken
        /\ KaSent => kop'.md.authorization = SelectedToken ]_vars

(* a sql client and a clone exist, the database was selected again, and    *)
(* then the sub-client and the keepalive task each sent an RPC             *)
C16_Witness ==
    /\ tokens = 2
    /\ sop.op = "request"
    /\ handles[sop.h].kind \in {"sql", "doc"}
    /\ sop.rpcs[1].md.authorization = Some(ServerToken(2))
    /\ kop.state = "inflight"
    /\ kop.md.authorization = Some(ServerToken(2))
    /\ \E h \in 2..MaxHandles : handles[h].kind = "db"

Connected == handles[1].kind # "none"

(* C17: a successful connect spawns one keepalive task and nothing else    *)
(* spawns one: a connection has exactly one task, before connect none      *)
C17_OneLivenessTask ==
    /\ Len(tasks) = IF Connected THEN 1 ELSE 0
    /\ Connected <=> arcs # <<>>

(* a connection with a clone and a sub-client after a second selection *)
C17_Witness ==
    /\ Len(tasks) = 1
    /\ tokens = 2
    /\ \E h \in 2..MaxHandles : handles[h].kind = "db"
    /\ \E h \in 2..MaxHandles : handles[h].kind \in {"sql", "doc"}

(* the step is the return of a failed keepalive RPC of task t *)
KaFailed(t) == KaStep(t) /\ tasks[t].pc = "rpc" /\ kop'.state = "failed"

(* C19: a failed keepalive RPC does not end the task, which selects again, *)
(* and changes nothing a foreground operation sees or returns              *)
C19_KeepaliveFailureSwallowed ==
    [][ \A t \in 1..Len(tasks) :
          KaFailed(t) =>
            /\ tasks'[t].pc = "select"
            /\ UNCHANGED <<arcs, handles, cancelled, tokens, sop>> ]_vars

(* a keepalive failed and the task, not cancelled, is at its select again *)
C19_Witness ==
    /\ kop.state = "failed"
    /\ ~cancelled
    /\ \E t \in 1..Len(tasks) : tasks[t].pc = "select"

(* the step drops ImmuDB handle h *)
DroppedIn(h) == handles[h].kind = "db" /\ handles'[h] = Dropped

(* C20: dropping the ImmuDB fires the cancellation and returns: it sends   *)
(* no close_session RPC and the keepalive task is where it was             *)
C20_DropFiresAndForgets ==
    [][ \A h \in 1..MaxHandles :
          DroppedIn(h) =>
            /\ cancelled'
            /\ sop'.op = "drop" /\ sop'.rpcs = <<>>
            /\ tasks' = tasks ]_vars

(* the handle was dropped while a keepalive RPC is still in flight *)
C20_Witness ==
    /\ sop.op = "drop"
    /\ cancelled
    /\ handles[sop.h] = Dropped
    /\ \E t \in 1..Len(tasks) : tasks[t].pc = "rpc"

Terminated == \A t \in 1..Len(tasks) : tasks[t].pc = "done"

(* C18: once the cancellation has fired the keepalive task terminates,     *)
(* also when a keepalive RPC is in flight and has not returned             *)
C18_CancelTerminates == cancelled ~> Terminated

(* the tokens set_token invocations store *)
WholeTokens == {Some(SetterToken(k)) : k \in 1..MaxSetters}

(* C15: under any interleaving of set_token with Interceptor::call, a call *)
(* attaches a whole token, the old one or the new one, never a mix of two  *)
(* or a part of one, and attaches one if a set_token had returned before   *)
(* the call started                                                        *)
C15_TokenReplacedAtomically ==
    \A c \in 1..MaxCallers :
        callers[c].pc = "sent" =>
            /\ Attached(c).authorization \in WholeTokens \cup {None}
            /\ callers[c].after_set => Attached(c).authorization # None

(* a call that started while a set_token held the lock attached the new    *)
(* token, and another call attached the token stored before                *)
C15_Witness ==
    \E c, o \in 1..MaxCallers :
        /\ callers[c].pc = "sent" /\ callers[c].raced
        /\ Attached(c).authorization = Some(SetterToken(2))
        /\ callers[o].pc = "sent"
        /\ Attached(o).authorization = Some(SetterToken(1))

----------------------------------------------------------------------------
(* Claims about failures, retries and order *)

Failed(rpcs) == \E i \in 1..Len(rpcs) : ~rpcs[i].ok
Count(rpcs, names) == Cardinality({i \in 1..Len(rpcs) : rpcs[i].rpc \in names})

(* C21: when the RPC behind exec, query, begin or commit fails, the call   *)
(* returns an error to its caller; a failed rollback RPC is the one        *)
(* failure of an executor's RPC its caller does not see                    *)
C21_FailuresPropagate ==
    [][ \A e \in Executors :
          /\ Calls(e, {"exec", "query", "begin", "commit"}) /\ Failed(sent')
               => call'.res = "Protocol"
          /\ Calls(e, {"exec", "query", "begin", "commit", "rollback"})
               /\ call'.res = "Ok" /\ Failed(sent')
               => call'.op = "rollback" ]_vars

(* a commit whose RPC failed returned the error *)
C21_Witness ==
    /\ call.op = "commit"
    /\ call.res = "Protocol"
    /\ Len(sent) = 1
    /\ sent[1].rpc = "commit" /\ ~sent[1].ok

(* C22: a call of exec, query, begin, commit or rollback issues at most    *)
(* one RPC, failed or not; with_tx, around a body of statements, issues    *)
(* one new_tx and at most one of commit and rollback                       *)
C22_NoRetry ==
    [][ \A e \in Executors :
          /\ Calls(e, {"exec", "query", "begin", "commit", "rollback"})
               => Len(sent') <= 1
          /\ Calls(e, {"with_tx"}) /\ OnlyStatements(call'.body)
               => /\ Count(sent', {"new_tx"}) = 1
                  /\ Count(sent', {"commit", "rollback"}) <= 1
                  /\ Len(sent') <= 2 + Len(call'.body) ]_vars

(* a with_tx whose body ran two statements and whose commit failed, once *)
C22_Witness ==
    /\ BodyRan
    /\ Len(call.body) = 2 /\ OnlyStatements(call.body)
    /\ call.res = "Protocol"
    /\ Len(sent) = 4
    /\ sent[4].rpc = "commit" /\ ~sent[4].ok

(* the most recent call was e's commit or rollback and it sent its RPC *)
Ended(e) == by = e /\ call.op \in {"commit", "rollback"} /\ sent # <<>>

(* C23: an executor's calls reach the server one at a time in the order    *)
(* they were made, so the statements of a transaction arrive between its   *)
(* new_tx and its commit or rollback: the call an executor makes after its *)
(* commit or rollback RPC sends no statement in that transaction           *)
C23_TxCallsBeforeCommit ==
    [][ \A e \in Executors :
          Ended(e) /\ Calls(e, {"exec", "query"}) =>
            \A i \in 1..Len(sent') :
                IsTxScoped(sent'[i]) =>
                    sent'[i].transactionid # sent[1].transactionid ]_vars

----------------------------------------------------------------------------
(* The codec at work: a value is encoded and the wire value decoded back,  *)
(* or a wire value is decoded as a target type.                            *)

AppValue(type, v) == [kind |-> "value", type |-> type, v |-> v]
WireInput(v) == [kind |-> "wire", wire |-> v]

IntTypes == {"i8", "i16", "i32", "i64", "u8", "u16", "u32", "u64"}

Floats ==
    {F64("finite", h) : h \in -3..3}
        \cup {F64("nan", 0), F64("inf", 0), F64("-inf", 0)}

(* bytes, and text as its UTF-8 bytes: "", "M", "Man", "a.b", two bytes of *)
(* "é", ...                                                                *)
ByteStrings == SeqsUpTo({0, 77, 255}, MaxBytes)
Texts == {<<>>, <<77>>, <<77, 97>>, <<77, 97, 110>>, <<97, 46, 98>>, <<195, 169>>}

Uuids ==
    {[i \in 1..16 |-> b] : b \in {0, 255}} \cup {[i \in 1..16 |-> 16 * i - 1]}

(* the hyphenated text of the third of Uuids, and texts that are no uuid *)
UuidTexts ==
    { <<48,102,49,102,50,102,51,102,45,52,102,53,102,45,54,102,55,102,45,
        56,102,57,102,45,97,102,98,102,99,102,100,102,101,102,102,102>>,
      [i \in 1..32 |-> 48], [i \in 1..32 |-> 103] }

Offsets == {-1, UTC, 1}

(* wire values a server can send: every variant, and the absent value *)
WireValues ==
    {SqlValue(None), SqlValue(Some(Value("Null", 0)))}
        \cup {SqlValue(Some(Value("N", n))) : n \in {MinOf("i64"), -1, 0, 7, MaxOf("i64")}}
        \cup {SqlValue(Some(Value("Ts", n))) : n \in {MinOf("i64"), -1, 0, 7, MaxOf("i64")}}

WireFloats == {SqlValue(Some(Value("F", f))) : f \in Floats}
WireBools == {SqlValue(Some(Value("B", b))) : b \in BOOLEAN}
WireTexts == {SqlValue(Some(Value("S", t))) : t \in Texts \cup UuidTexts}
WireBytes == {SqlValue(Some(Value("Bs", b))) : b \in ByteStrings \cup Uuids}

Targets == {"i64", "String", "bool", "f64", "Vec<u8>", "OffsetDateTime", "Uuid"}

LabelInput(label) == [kind |-> "label", label |-> label]

(* `  ("groups"."name")  `, `col`, `(a.b)`, `[t].[c]`, `a.id` *)
QuotedGroupsName ==
    <<32, 32, 40, 34, 103, 114, 111, 117, 112, 115, 34, 46,
      34, 110, 97, 109, 101, 34, 41, 32, 32>>
Col == <<99, 111, 108>>
ParenAB == <<40, 97, 46, 98, 41>>

(* the three labels above, and every label of up to MaxLabel characters    *)
(* out of space, parentheses, the double quote, the dot and `a`            *)
Labels ==
    {QuotedGroupsName, Col, ParenAB, <<91, 116, 93, 46, 91, 99, 93>>, <<97, 46, 105, 100>>}
        \cup SeqsUpTo({32, 40, 41, 34, 46, 97}, MaxLabel)

ResultInput(qr, idx) == [kind |-> "result", qr |-> qr, idx |-> idx]

(* labels a server gives: `a`, `a.id`, `b.id`, `(c)` *)
ServerLabels == {<<97>>, <<97, 46, 105, 100>>, <<98, 46, 105, 100>>, <<40, 99, 41>>}
LabelLists == SeqsUpTo(ServerLabels, MaxCols)

(* the i-th value of a row is the integer 10 + i *)
RowValues(n) == [i \in 1..n |-> SqlValue(Some(Value("N", 10 + i)))]

(* results of one row: the columns of the result, the labels and the       *)
(* values of the row                                                       *)
Results ==
    { QueryResult([k \in 1..Len(cols) |-> Column(cols[k], "INTEGER")],
                  <<Row(labels, RowValues(n))>>) :
        cols \in LabelLists, labels \in LabelLists, n \in 0..MaxValues }

QueryInput(q) == [kind |-> "query", q |-> q]

(* a comparison {field: "f", op, value: 1}, and the entries an AND array   *)
(* can hold: comparisons with EQ, with `ge`, with the unknown XX, one      *)
(* without value, the text "x", and an object {OR: [..]}                   *)
Comparison(op) ==
    Json("object", [field |-> Json("string", <<102>>), op |-> Json("string", op),
                    value |-> Json("number", 1)])
EntryKinds == {"cmp", "cmp_lower", "bad_op", "no_value", "text", "nested_or"}
Entry(kind) ==
    CASE kind = "cmp" -> Comparison(<<69, 81>>)
      [] kind = "cmp_lower" -> Comparison(<<103, 101>>)
      [] kind = "bad_op" -> Comparison(<<88, 88>>)
      [] kind = "no_value" ->
           Json("object", [field |-> Json("string", <<102>>),
                           op |-> Json("string", <<69, 81>>)])
      [] kind = "text" -> Json("string", <<120>>)
      [] kind = "nested_or" ->
           Json("object", [OR |-> Json("array", <<Comparison(<<69, 81>>)>>)])

(* a `where` object: an AND array of the entries, if any, and an OR array  *)
(* of one comparison, if asked for                                         *)
WhereObject(and, or) ==
    Json("object",
         [k \in (IF and = None THEN {} ELSE {"AND"}) \cup (IF or THEN {"OR"} ELSE {}) |->
            IF k = "AND" THEN Json("array", [i \in 1..Len(and[1]) |-> Entry(and[1][i])])
            ELSE Json("array", <<Comparison(<<78, 69>>)>>)])

(* [{field: "f", desc: true}, "x", {field: "f"}] *)
OrderBy ==
    Json("array",
         << Json("object", [field |-> Json("string", <<102>>), desc |-> Json("bool", TRUE)]),
            Json("string", <<120>>),
            Json("object", [field |-> Json("string", <<102>>)]) >>)

(* a query: the collection name as a text, a number or missing, with or    *)
(* without limit and order_by, and the `where` given                       *)
QueryObject(coll, limit, order, where) ==
    Json("object",
         [k \in (IF coll = "missing" THEN {} ELSE {"collection_name"})
                  \cup (IF limit = None THEN {} ELSE {"limit"})
                  \cup (IF order THEN {"order_by"} ELSE {})
                  \cup (IF where = None THEN {} ELSE {"where"}) |->
            CASE k = "collection_name" ->
                   IF coll = "text" THEN Json("string", <<99>>) ELSE Json("number", 1)
              [] k = "limit" -> Json("number", limit[1])
              [] k = "order_by" -> OrderBy
              [] k = "where" -> where[1]])

BindInput(binds) == [kind |-> "binds", binds |-> binds]
StructInput(fields) == [kind |-> "struct", fields |-> fields]

(* the names `id` and `name`, the texts `alice` and the empty one *)
Id == <<105, 100>>
Name == <<110, 97, 109, 101>>
Alice == <<97, 108, 105, 99, 101>>
ParamNames == {Id, Name}

(* the i-th parameter of a list of integers is the i64 6 + i *)
IntBinds(names) ==
    [i \in 1..Len(names) |-> [name |-> names[i], val |-> AppValue("i64", 6 + i)]]

(* what a field of a struct can be: plain, renamed, skipped, skip_if_none  *)
(* on a type that is no Option, an Option with skip_if_none holding a      *)
(* value or None, a skipped Option                                         *)
Field(rename, skip, skip_if_none, is_option, v) ==
    [rename |-> rename, skip |-> skip, skip_if_none |-> skip_if_none,
     is_option |-> is_option, v |-> v]
FieldShapes ==
    { Field(None, FALSE, FALSE, FALSE, <<0>>),
      Field(Some(Name), FALSE, FALSE, FALSE, <<0>>),
      Field(None, TRUE, FALSE, FALSE, <<0>>),
      Field(None, FALSE, TRUE, FALSE, <<0>>),
      Field(None, FALSE, TRUE, TRUE, <<0>>),
      Field(None, FALSE, TRUE, TRUE, <<>>),
      Field(None, TRUE, FALSE, TRUE, <<>>) }

(* the i-th field of a struct is named a, b, c, ... and holds 6 + i *)
StructOf(shapes) ==
    [i \in 1..Len(shapes) |->
        [ident |-> <<96 + i>>, rename |-> shapes[i].rename, skip |-> shapes[i].skip,
         skip_if_none |-> shapes[i].skip_if_none, is_option |-> shapes[i].is_option,
         v |-> [k \in 1..Len(shapes[i].v) |-> AppValue("i64", 6 + i)]]]

ReadInput(qr) == [kind |-> "read", qr |-> qr]

(* rows the read helpers meet: no cell, an integer, a timestamp, two      *)
(* integers                                                                *)
ReadRows ==
    { Row(<<>>, <<>>),
      Row(<<<<97>>>>, <<SqlValue(Some(Value("N", 11)))>>),
      Row(<<<<97>>>>, <<SqlValue(Some(Value("Ts", 12)))>>),
      Row(<<<<97>>, <<98>>>>, RowValues(2)) }
ReadResults == {QueryResult(<<>>, rows) : rows \in SeqsUpTo(ReadRows, MaxResultRows)}

(* the types cells are read as, and structs of the fields a, and a and b *)
CellTypes == {"i64", "OffsetDateTime"}
Structs == {{<<97>>}, {<<97>>, <<98>>}}

InitConvert ==
    /\ clients = {}
    /\ tx_id = [e \in Executors |-> None]
    /\ issued = 0
    /\ by = 0
    /\ sent = <<>>
    /\ call = NoCall
    /\ stream = <<>>
    /\ payload = SqlExecResult_default
    /\ result = NoResult
    /\ NotConnected
    /\ Unlocked
    /\ conv = NoConversion
    /\ \/ \E t \in IntTypes : \E n \in MinOf(t)..MaxOf(t) : arg = AppValue(t, n)
       \/ \E b \in BOOLEAN : arg = AppValue("bool", b)
       \/ \E f \in Floats : arg = AppValue("f64", f)
       \/ \E t \in {"String", "&str"} : \E x \in Texts : arg = AppValue(t, x)
       \/ \E t \in {"Vec<u8>", "&[u8]"} : \E x \in ByteStrings : arg = AppValue(t, x)
       \/ \E u \in Uuids : arg = AppValue("Uuid", u)
       \/ \E ns \in -MaxNanos..MaxNanos : \E o \in Offsets :
            arg = AppValue("OffsetDateTime", OffsetDateTime(ns, o))
       \/ \E v \in WireValues : arg = WireInput(v)
       \/ \E v \in WireFloats : arg = WireInput(v)
       \/ \E v \in WireBools : arg = WireInput(v)
       \/ \E v \in WireTexts : arg = WireInput(v)
       \/ \E v \in WireBytes : arg = WireInput(v)
       \/ \E l \in Labels : arg = LabelInput(l)
       \/ \E qr \in Results : \E idx \in 0..1 : arg = ResultInput(qr, idx)
       \/ \E qr \in ReadResults : arg = ReadInput(qr)
       \/ arg = QueryInput(Json("string", <<120>>))
       \/ \E coll \in {"text", "number", "missing"} : \E limit \in {None, Some(5)} :
          \E order \in BOOLEAN :
            \/ arg = QueryInput(QueryObject(coll, limit, order, None))
            \/ arg = QueryInput(QueryObject(coll, limit, order, Some(Json("string", <<120>>))))
            \/ \E and \in {None} \cup {Some(es) : es \in SeqsUpTo(EntryKinds, MaxEntries)} :
               \E or \in BOOLEAN :
                 arg = QueryInput(QueryObject(coll, limit, order, Some(WhereObject(and, or))))
       \/ \E names \in SeqsUpTo(ParamNames, MaxBinds) : arg = BindInput(IntBinds(names))
       \/ \E n1, n2 \in ParamNames : \E t \in {<<>>, Alice} :
            \/ arg = BindInput(<<[name |-> n1, val |-> AppValue("i64", 7)],
                                 [name |-> n2, val |-> AppValue("String", t)]>>)
            \/ arg = BindInput(<<[name |-> n1, val |-> AppValue("&str", t)],
                                 [name |-> n2, val |-> AppValue("u8", 3)]>>)
       \/ \E shapes \in SeqsUpTo(FieldShapes, MaxFields) : arg = StructInput(StructOf(shapes))

(* the type a value of the given type is read back as *)
ReadAs(type) ==
    CASE type \in IntTypes -> "i64"
      [] type = "&str" -> "String"
      [] type = "&[u8]" -> "Vec<u8>"
      [] OTHER -> type

(* Params::bind: arg_to_sql_value(val.into()) *)
Encode ==
    /\ arg.kind = "value"
    /\ conv.op = "none"
    /\ conv' = [op |-> "encode", wire |-> arg_to_sql_value(SqlArg_from(arg)),
                out |-> NoResult]
    /\ UNCHANGED <<arg, mvars, qvars, svars, tvars>>

(* T::try_from on the wire value Encode produced *)
DecodeBack ==
    /\ arg.kind = "value"
    /\ conv.op = "encode"
    /\ conv' = [op |-> "round_trip", wire |-> conv.wire,
                out |-> try_from(ReadAs(arg.type), conv.wire)]
    /\ UNCHANGED <<arg, mvars, qvars, svars, tvars>>

(* T::try_from on a wire value of the server, for a target type T *)
DecodeWire ==
    /\ arg.kind = "wire"
    /\ conv.op = "none"
    /\ \E T \in Targets :
         conv' = [op |-> "decode", target |-> T, out |-> try_from(T, arg.wire)]
    /\ UNCHANGED <<arg, mvars, qvars, svars, tvars>>

(* QueryResult::row_as_json on a row of the result, or past its rows *)
RowAsJson ==
    /\ arg.kind = "result"
    /\ conv.op = "none"
    /\ conv' = [op |-> "row_as_json", out |-> row_as_json(arg.qr, arg.idx)]
    /\ UNCHANGED <<arg, mvars, qvars, svars, tvars>>

(* Params::new, then Params::bind for the next parameter of the list *)
Bind ==
    /\ arg.kind = "binds"
    /\ conv.op \in {"none", "bind"}
    /\ LET inner == IF conv.op = "none" THEN <<>> ELSE conv.inner
           next == arg.binds[Len(inner) + 1]
       IN  /\ Len(inner) < Len(arg.binds)
           /\ conv' = [op |-> "bind", inner |-> bind(inner, next.name, next.val)]
    /\ UNCHANGED <<arg, mvars, qvars, svars, tvars>>

(* the derived ToParams::to_params, then Params::into_inner *)
ToParams ==
    /\ arg.kind = "struct"
    /\ conv.op = "none"
    /\ conv' = [op |-> "to_params", inner |-> to_params(arg.fields, 1, <<>>)]
    /\ UNCHANGED <<arg, mvars, qvars, svars, tvars>>

(* json_to_immudb_query on a query of the document search *)
JsonToImmudbQuery ==
    /\ arg.kind = "query"
    /\ conv.op = "none"
    /\ conv' = [op |-> "json_to_immudb_query", out |-> json_to_immudb_query(arg.q)]
    /\ UNCHANGED <<arg, mvars, qvars, svars, tvars>>

(* QueryResult::scalar::<T> *)
Scalar ==
    /\ arg.kind = "read"
    /\ conv.op = "none"
    /\ \E T \in CellTypes :
         conv' = [op |-> "scalar", target |-> T, out |-> scalar(arg.qr, T)]
    /\ UNCHANGED <<arg, mvars, qvars, svars, tvars>>

(* QueryResult::first_col_as::<T> *)
FirstColAs ==
    /\ arg.kind = "read"
    /\ conv.op = "none"
    /\ \E T \in CellTypes :
         conv' = [op |-> "first_col_as", target |-> T,
                  out |-> first_col_as(arg.qr, T, 0, <<>>)]
    /\ UNCHANGED <<arg, mvars, qvars, svars, tvars>>

(* QueryResult::one_as::<T> *)
OneAs ==
    /\ arg.kind = "read"
    /\ conv.op = "none"
    /\ \E T \in Structs :
         conv' = [op |-> "one_as", target |-> T, out |-> one_as(arg.qr, T)]
    /\ UNCHANGED <<arg, mvars, qvars, svars, tvars>>

(* QueryResult::normalize_col on a label *)
Normalize ==
    /\ arg.kind = "label"
    /\ conv.op = "none"
    /\ conv' = [op |-> "normalize", out |-> normalize_col(arg.label)]
    /\ UNCHANGED <<arg, mvars, qvars, svars, tvars>>

NextConvert ==
    \/ Encode
    \/ DecodeBack
    \/ DecodeWire
    \/ Normalize
    \/ RowAsJson
    \/ Scalar
    \/ FirstColAs
    \/ OneAs
    \/ Bind
    \/ ToParams
    \/ JsonToImmudbQuery

SpecConvert == InitConvert /\ [][NextConvert]_vars

----------------------------------------------------------------------------
(* Claims about the codec *)

VariantOf(type) ==
    CASE type = "i64" -> "N"
      [] type = "bool" -> "B"
      [] type = "String" -> "S"
      [] type = "Vec<u8>" -> "Bs"
      [] type = "Uuid" -> "Bs"
      [] type = "f64" -> "F"

Scalars == {"i64", "bool", "String", "Vec<u8>", "Uuid", "f64"}

(* C24: for an i64, a bool, a String, a Vec<u8>, a Uuid and an f64,        *)
(* encoding gives a present wire value of the one variant of the type, and *)
(* decoding that wire value as the type gives the value back               *)
C24_RoundTrip ==
    arg.kind = "value" /\ arg.type \in Scalars =>
        /\ conv.op \in {"encode", "round_trip"} =>
             /\ conv.wire.value # None
             /\ conv.wire.value[1].variant = VariantOf(arg.type)
        /\ conv.op = "round_trip" =>
             /\ conv.out.res = "Ok"
             /\ conv.out.value = Some(arg.v)

(* a three-byte byte string came back from the wire *)
C24_Witness ==
    /\ arg.kind = "value" /\ arg.type = "Vec<u8>"
    /\ conv.op = "round_trip"
    /\ Len(arg.v) = 3
    /\ conv.out.res = "Ok"

(* an instant with its sub-microsecond part discarded *)
TruncatedToMicros(dt) == dt.ns - (dt.ns % 1000)

(* C25: an instant is encoded as Timestamp(microseconds since the epoch)   *)
(* with the sub-microsecond part discarded, and decoding it gives the      *)
(* instant truncated to microseconds, before the epoch and at any offset   *)
C25_TimestampNarrowing ==
    arg.kind = "value" /\ arg.type = "OffsetDateTime" =>
        /\ conv.op \in {"encode", "round_trip"} =>
             conv.wire = SqlValue(Some(Value("Ts", TruncatedToMicros(arg.v) \div 1000)))
        /\ conv.op = "round_trip" =>
             /\ conv.out.res = "Ok"
             /\ conv.out.value[1].ns = TruncatedToMicros(arg.v)

Unsigned == {"u8", "u16", "u32", "u64"}

(* C26: an unsigned integer n of 8, 16, 32 or 64 bits is encoded as the    *)
(* Integer variant holding the number n                                    *)
C26_UnsignedWidened ==
    arg.kind = "value" /\ arg.type \in Unsigned /\ conv.op \in {"encode", "round_trip"} =>
        conv.wire = SqlValue(Some(Value("N", arg.v)))

(* the wire variants each target type accepts, and the kind it names *)
Accepts(T) ==
    CASE T = "i64" -> {"N"}
      [] T = "String" -> {"S", "Bs"}
      [] T = "bool" -> {"B"}
      [] T = "f64" -> {"F", "N"}
      [] T = "Vec<u8>" -> {"Bs"}
      [] T = "OffsetDateTime" -> {"Ts"}
      [] T = "Uuid" -> {"Bs", "S"}

ExpectedKind(T) ==
    CASE T = "i64" -> "i64"
      [] T = "String" -> "string or bytes(base64)"
      [] T = "bool" -> "bool"
      [] T = "f64" -> "f64"
      [] T = "Vec<u8>" -> "bytes"
      [] T = "OffsetDateTime" -> "timestamp (Ts)"
      [] T = "Uuid" -> "uuid (16 bytes or string)"

Decoded(T, variant) ==
    /\ arg.kind = "wire"
    /\ conv.op = "decode"
    /\ conv.target = T
    /\ Held(arg.wire).variant = variant

(* a variant outside the accepted ones fails with a Decode error naming    *)
(* the expected kind and the value received                                *)
RejectsOthers ==
    \A T \in Targets :
        \A variant \in {"None", "Null", "N", "F", "B", "S", "Bs", "Ts"} \ Accepts(T) :
            Decoded(T, variant) =>
                /\ conv.out.res = "Decode"
                /\ conv.out.msg = <<"expected", ExpectedKind(T), "got", arg.wire.value>>

(* C27 as claimed: a variant outside the target's accepted ones fails with *)
(* a Decode error naming the expected kind and the actual variant, and a   *)
(* boolean cell decoded as a string fails naming `bool` as expected        *)
C27_DecodeFailureAsClaimed ==
    /\ RejectsOthers
    /\ Decoded("String", "B") =>
         conv.out.res = "Decode" /\ conv.out.msg[2] = "bool"

(* C27, amended: a variant outside the target's accepted ones fails with a *)
(* Decode error naming the expected kind and the actual variant; a boolean *)
(* cell decoded as a string names `string or bytes(base64)` as expected    *)
(* and the boolean as received, and `bool` is named as expected when a     *)
(* cell of another variant is decoded as a bool                            *)
C27_DecodeFailure ==
    /\ RejectsOthers
    /\ Decoded("String", "B") =>
         /\ conv.out.res = "Decode"
         /\ conv.out.msg[2] = "string or bytes(base64)"
         /\ conv.out.msg[4] = Some(Value("B", Held(arg.wire).v))
    /\ Decoded("bool", "S") =>
         conv.out.res = "Decode" /\ conv.out.msg[2] = "bool"

(* a boolean cell was decoded as a string and the decode failed *)
C27_Witness ==
    /\ Decoded("String", "B")
    /\ conv.out.res = "Decode"

(* reading standard base64 text back: the six bits of a character, and the *)
(* bytes of each group of four characters                                  *)
Sextet(c) ==
    IF c \in 65..90 THEN c - 65
    ELSE IF c \in 97..122 THEN c - 71
    ELSE IF c \in 48..57 THEN c + 4
    ELSE IF c = 43 THEN 62
    ELSE IF c = 47 THEN 63
    ELSE -1

RECURSIVE FromBase64(_)
FromBase64(t) ==
    IF Len(t) < 4 THEN <<>>
    ELSE LET a == Sextet(t[1])
             b == Sextet(t[2])
             c == Sextet(t[3])
             d == Sextet(t[4])
             rest == FromBase64(SubSeq(t, 5, Len(t)))
         IN  IF t[3] = 61 THEN <<a * 4 + b \div 16>>
             ELSE IF t[4] = 61 THEN <<a * 4 + b \div 16, (b % 16) * 16 + c \div 4>>
             ELSE <<a * 4 + b \div 16, (b % 16) * 16 + c \div 4, (c % 4) * 64 + d>> \o rest

(* text is the padded standard base64 of bytes *)
IsBase64Of(text, bytes) ==
    /\ Len(text) = 4 * ((Len(bytes) + 2) \div 3)
    /\ \A k \in 1..Len(text) :
         Sextet(text[k]) >= 0 \/ (text[k] = 61 /\ k > Len(text) - 2)
    /\ FromBase64(text) = bytes

(* C28: a decode to String takes Utf8String, returned unchanged, and       *)
(* ByteString, returned as its standard base64 text, and rejects Null,     *)
(* Integer, Float, Boolean, Timestamp and the absent value with a Decode   *)
(* error                                                                   *)
C28_StringDecode ==
    /\ Decoded("String", "S") => conv.out = Ok(Held(arg.wire).v)
    /\ Decoded("String", "Bs") =>
         /\ conv.out.res = "Ok"
         /\ IsBase64Of(conv.out.value[1], Held(arg.wire).v)
         /\ Held(arg.wire).v = <<77>> => conv.out.value[1] = <<84, 81, 61, 61>>
         /\ Held(arg.wire).v = <<77, 77>> => conv.out.value[1] = <<84, 85, 48, 61>>
         /\ Held(arg.wire).v = <<0, 255, 77>> => conv.out.value[1] = <<65, 80, 57, 78>>
    /\ \A variant \in {"None", "Null", "N", "F", "B", "Ts"} :
         Decoded("String", variant) => conv.out.res = "Decode"

(* the byte string "M" was decoded as the text "TQ==" *)
C28_Witness ==
    /\ Decoded("String", "Bs")
    /\ Held(arg.wire).v = <<77>>
    /\ conv.out = Ok(<<84, 81, 61, 61>>)

Normalized(label) == arg.kind = "label" /\ conv.op = "normalize" /\ arg.label = label

(* C29: normalize(`  ("groups"."name")  `) is `name`, normalize(`col`) is  *)
(* `col`, normalize(`(a.b)`) is `b`; the result is trimmed and is the last *)
(* segment of the dotted path, so it holds no dot                          *)
C29_ColumnNormalization ==
    /\ Normalized(QuotedGroupsName) => conv.out = <<110, 97, 109, 101>>
    /\ Normalized(Col) => conv.out = Col
    /\ Normalized(ParenAB) => conv.out = <<98>>
    /\ arg.kind = "label" /\ conv.op = "normalize" =>
         /\ \A k \in 1..Len(conv.out) : conv.out[k] # 46
         /\ conv.out # <<>> =>
              ~is_whitespace(conv.out[1]) /\ ~is_whitespace(conv.out[Len(conv.out)])

(* the row row_as_json was asked for, and the labels of the result *)
TheRow == arg.qr.rows[arg.idx + 1]
ResultNames == [k \in 1..Len(arg.qr.columns) |-> arg.qr.columns[k].name]

(* col1, col2, ... by 1-based position *)
Synthesized(k) == <<99, 111, 108, 48 + k>>

(* the label of the k-th value: the row's own labels if it has any, else   *)
(* the result's; past the end of the chosen list, or with no labels at     *)
(* all, col<k>                                                             *)
LabelOf(k) ==
    IF TheRow.columns # <<>>
    THEN IF k <= Len(TheRow.columns) THEN TheRow.columns[k] ELSE Synthesized(k)
    ELSE IF k <= Len(ResultNames) THEN ResultNames[k] ELSE Synthesized(k)

Documented == arg.kind = "result" /\ conv.op = "row_as_json" /\ conv.out.res = "Ok"

(* C30: row_as_json keys the k-th value by the row's own k-th label if the *)
(* row has labels, else by the result's k-th column name, and by col<k>    *)
(* where the chosen list is shorter than the values or empty; labels past  *)
(* the values give no key                                                  *)
C30_ColumnNameResolution ==
    Documented =>
        LET obj == conv.out.value[1]
            n == Len(TheRow.values)
        IN  /\ DOMAIN obj = {normalize_col(LabelOf(k)) : k \in 1..n}
            /\ \A k \in 1..n :
                 (\A j \in 1..n : j # k => normalize_col(LabelOf(j)) # normalize_col(LabelOf(k)))
                     => obj[normalize_col(LabelOf(k))] = Json("number", 10 + k)

(* a row with one label of its own and three values in a result of two     *)
(* columns: the row's label, then col2 and col3                            *)
C30_Witness ==
    /\ Documented
    /\ Len(TheRow.columns) = 1 /\ Len(TheRow.values) = 3 /\ Len(ResultNames) = 2
    /\ TheRow.columns[1] # ResultNames[1]
    /\ DOMAIN conv.out.value[1] =
         {normalize_col(TheRow.columns[1]), Synthesized(2), Synthesized(3)}

Read(op) == arg.kind = "read" /\ conv.op = op
DecodeError == conv.out.res = "Decode" /\ conv.out.value = None

(* a row whose first cell cannot be read as T: no cell, or another variant *)
Unreadable(row, T) ==
    row.values = <<>> \/ Held(row.values[1]).variant \notin Accepts(T)

(* C31: the read helpers fail with a Decode error: scalar on no row or on  *)
(* a first row without values, one_as on a row count other than 1,         *)
(* first_col_as, without a partial list, if any row has no first cell of   *)
(* the type, row_as_json past the last row                                 *)
C31_ReadHelpersDecodeErrors ==
    /\ Read("scalar") /\ (arg.qr.rows = <<>> \/ arg.qr.rows[1].values = <<>>)
         => DecodeError
    /\ Read("one_as") /\ Len(arg.qr.rows) # 1 => DecodeError
    /\ Read("first_col_as")
         /\ (\E i \in 1..Len(arg.qr.rows) : Unreadable(arg.qr.rows[i], conv.target))
         => DecodeError
    /\ arg.kind = "result" /\ conv.op = "row_as_json" /\ arg.idx >= Len(arg.qr.rows)
         => DecodeError

(* first_col_as met a readable first row and then a timestamp read as i64 *)
C31_Witness ==
    /\ Read("first_col_as")
    /\ conv.target = "i64"
    /\ Len(arg.qr.rows) = 2
    /\ ~Unreadable(arg.qr.rows[1], "i64")
    /\ arg.qr.rows[2].values # <<>>
    /\ Unreadable(arg.qr.rows[2], "i64")
    /\ DecodeError


(* the wire value of a bound value: Integer for the integers, Utf8String   *)
(* for the texts                                                           *)
WireOf(val) ==
    IF val.type \in {"String", "&str"} THEN SqlValue(Some(Value("S", val.v)))
    ELSE SqlValue(Some(Value("N", val.v)))

(* the fields of a struct that give a parameter *)
Bound(f) == ~f.skip /\ ~(f.skip_if_none /\ f.is_option /\ f.v = <<>>)

(* id=7, a 64-bit integer, then name="alice" *)
IdThenName ==
    /\ arg.kind = "binds"
    /\ Len(arg.binds) = 2
    /\ arg.binds[1].name = Id /\ arg.binds[2].name = Name
    /\ arg.binds[1].val.type = "i64" /\ arg.binds[2].val.type = "String"
    /\ arg.binds[1].val.v = 7 /\ arg.binds[2].val.v = Alice

(* C32: the parameters bound so far are the first ones of the list, each   *)
(* under the name it was bound with and with its wire value, duplicates    *)
(* kept; id=7 then name="alice" gives [Integer(7), Utf8String("alice")]; a *)
(* derived ToParams gives the fields that are neither skipped nor a None   *)
(* marked skip_if_none, in the order of the struct                         *)
C32_ParamsInOrder ==
    /\ arg.kind = "binds" /\ conv.op = "bind" =>
         /\ Len(conv.inner) <= Len(arg.binds)
         /\ \A k \in 1..Len(conv.inner) :
              /\ conv.inner[k].name = arg.binds[k].name
              /\ conv.inner[k].value = Some(WireOf(arg.binds[k].val))
    /\ IdThenName /\ conv.op = "bind" /\ Len(conv.inner) = 2 =>
         /\ conv.inner[1].value[1].value[1] = Value("N", 7)
         /\ conv.inner[2].value[1].value[1] = Value("S", Alice)
    /\ arg.kind = "struct" /\ conv.op = "to_params" =>
         LET kept == SelectSeq(arg.fields, Bound)
         IN  /\ Len(conv.inner) = Len(kept)
             /\ \A k \in 1..Len(kept) :
                  /\ conv.inner[k].name =
                       IF kept[k].rename # None THEN kept[k].rename[1] ELSE kept[k].ident
                  /\ conv.inner[k].value = Some(WireOf(kept[k].v[1]))

(* the same name was bound three times, and three parameters are there *)
C32_Witness ==
    /\ arg.kind = "binds" /\ conv.op = "bind"
    /\ Len(conv.inner) = 3
    /\ \A k \in 1..3 : conv.inner[k].name = Id
    /\ conv.inner[1].value # conv.inner[3].value

(* a struct of a skipped field, an Option that is None and a plain field   *)
(* gave the one parameter c                                                *)
C32_WitnessDerived ==
    /\ arg.kind = "struct" /\ conv.op = "to_params"
    /\ Len(arg.fields) = 3
    /\ arg.fields[1].skip
    /\ arg.fields[2].skip_if_none /\ arg.fields[2].is_option /\ arg.fields[2].v = <<>>
    /\ Len(conv.inner) = 1
    /\ conv.inner[1].name = <<99>>


(* the `where` object of the query converted, if it has one *)
Converted == arg.kind = "query" /\ conv.op = "json_to_immudb_query"
HasWhere ==
    /\ Converted
    /\ arg.q.json = "object"
    /\ "where" \in DOMAIN arg.q.v
    /\ arg.q.v["where"].json = "object"
Where == arg.q.v["where"].v

(* an entry of the AND array that is a {field, op, value} object *)
IsComparison(item) ==
    item.json = "object" /\ DOMAIN item.v = {"field", "op", "value"}

(* the `where` has another combinator than AND, or its AND is no array of  *)
(* comparisons                                                             *)
Unsupported ==
    /\ HasWhere
    /\ \/ DOMAIN Where \ {"AND"} # {}
       \/ /\ "AND" \in DOMAIN Where
          /\ \/ Where["AND"].json # "array"
             \/ \E i \in 1..Len(Where["AND"].v) : ~IsComparison(Where["AND"].v[i])

(* C33: a query whose `where` holds an OR key, or an AND entry that is no  *)
(* {field, op, value} object, is rejected with an error                    *)
C33_UnsupportedWhereRejected ==
    Unsupported => conv.out.res # "Ok"


(* C34: the keepalive is cancelled only at teardown: while a handle of the *)
(* connection is alive, the cancellation token has not been cancelled      *)
C34_CancelOnlyAtTeardown ==
    cancelled => \A h \in 1..MaxHandles : handles[h].kind # "db"

(* C35: when with_tx returns, whatever its outcome, the executor holds no  *)
(* transaction id and its next statement carries no "transactionid"        *)
C35_WithTxEndsInAutocommit ==
    [][ \A e \in Executors :
          Calls(e, {"with_tx"}) =>
            /\ tx_id'[e] = None
            /\ exec(Run(tx_id'[e], <<>>, issued', "Ok"), TRUE).sent[1].rpc = "sql_exec" ]_vars

(* the begin of the with_tx that returned failed *)
BeginFailed ==
    /\ call.op = "with_tx"
    /\ sent # <<>>
    /\ sent[1].rpc = "new_tx"
    /\ ~sent[1].ok \/ MetadataValue_try_from(sent[1].id) = None

(* C37: when the begin of with_tx fails, the new-transaction RPC is the    *)
(* only one sent, so the body made no call and neither commit nor rollback *)
(* was issued, and the caller gets begin's error                           *)
C37_BeginFailureEndsWithTx ==
    BeginFailed =>
        /\ Len(sent) = 1
        /\ call.res = (IF sent[1].ok THEN "Unexpected" ELSE "Protocol")

(* with_tx was handed a body of two statements and its begin failed *)
C37_Witness ==
    /\ BeginFailed
    /\ ~sent[1].ok
    /\ Len(call.body) = 2
    /\ OnlyStatements(call.body)


(* C36: a statement that fails, by its RPC, by its stream or by a Decode   *)
(* error of the read helper, leaves the executor's transaction id as it    *)
(* was before the call                                                     *)
C36_FailedStatementKeepsTx ==
    [][ \A e \in Executors :
          Calls(e, {"exec", "query", "query_scalar"}) /\ result'.res # "Ok"
              => tx_id'[e] = tx_id[e] ]_vars

(* query_scalar failed with a Decode error inside a transaction, and the   *)
(* executor still holds the transaction's id                               *)
C36_Witness ==
    /\ call.op = "query_scalar"
    /\ result.res = "Decode"
    /\ call.res = "Decode"
    /\ sent[1].rpc = "tx_sql_query"
    /\ sent[1].ok
    /\ tx_id[by] = sent[1].transactionid

(* a statement failed by its stream inside a transaction *)
C36_WitnessStream ==
    /\ call.op = "query"
    /\ result.res = "Protocol"
    /\ sent[1].rpc = "tx_sql_query"
    /\ StreamFailed
    /\ tx_id[by] # None


(* C38: a use_database that fails, by its RPC or by a token that is no     *)
(* ASCII metadata, leaves the stored token as it was; and a token once     *)
(* stored is never absent again                                            *)
C38_FailedSelectionKeepsToken ==
    [][ /\ Did({"use_database"}) /\ sop'.res # "Ok" =>
             /\ Len(arcs') = Len(arcs)
             /\ \A i \in 1..Len(arcs) : arcs'[i].db_token = arcs[i].db_token
        /\ \A i \in 1..Len(arcs) :
             arcs[i].db_token # None => Len(arcs') >= i /\ arcs'[i].db_token # None ]_vars

(* after a second selection, a third one was answered with a token that is *)
(* no ASCII metadata, and the token of the second is still stored          *)
C38_Witness ==
    /\ sop.op = "use_database"
    /\ sop.res = "InvalidInput"
    /\ tokens = 2
    /\ arcs[1].db_token = Some(ServerToken(2))


(* the step spawns a keepalive task *)
Spawned == Len(tasks') > Len(tasks)

(* every entry the interceptor can set is present *)
FullyAuthorized(md) ==
    /\ md.sessionid # None
    /\ md.immudb_uuid # None
    /\ md.authorization # None

(* C39: connect spawns the keepalive task only after open_session and the  *)
(* database selection succeeded and the token was stored, so a connect     *)
(* that returns an error has spawned no task and left no session state,    *)
(* and every keepalive RPC carries sessionid, immudb-uuid and authorization *)
C39_ConnectOrdered ==
    [][ /\ Did({"connect"}) /\ sop'.res # "Ok" =>
             tasks' = tasks /\ arcs' = arcs /\ handles' = handles
        /\ Spawned =>
             /\ sop'.op = "connect" /\ sop'.res = "Ok"
             /\ \A i \in 1..Len(sop'.rpcs) : sop'.rpcs[i].ok
             /\ arcs'[tasks'[Len(tasks')].service].db_token # None
        /\ KaSent => FullyAuthorized(kop'.md) ]_vars

(* the session was opened, the server's token was refused by set_token,    *)
(* and connect returned the error with no task running                     *)
C39_Witness ==
    /\ sop.op = "connect"
    /\ sop.res = "InvalidInput"
    /\ Len(sop.rpcs) = 2
    /\ tasks = <<>>
    /\ arcs = <<>>

(* the task of a connection sends its keepalive with the bearer token *)
C39_WitnessKeepalive ==
    /\ sop.op = "connect"
    /\ sop.res = "Ok"
    /\ kop.state = "inflight"
    /\ kop.md = Metadata(Some(SessionId), Some(ServerUuid), Some(ServerToken(1)))


(* C40: the document row_as_json produces has as many keys as the row has  *)
(* values, also when two labels of the row normalize to the same key       *)
C40_NoCellLost ==
    Documented => Cardinality(DOMAIN conv.out.value[1]) = Len(TheRow.values)

====
